---- MODULE Spec2Model ----
(***************************************************************************)
(* A model of the xray-emitter request instrumentation library:           *)
(*   - LimitedBuffer (src/core/limited_buffer.ts)                         *)
(*   - the emitter's request lifecycle (src/core/emitter.ts, state.ts)    *)
(*   - the node, fetch and effect adapters                                *)
(***************************************************************************)
EXTENDS Integers, Sequences, FiniteSets, TLC

VARIABLES
    lb,          \* the LimitedBuffer instance: buffer, length, limit, truncatedFlag, total
    lbWritten,   \* history: the concatenation of every chunk passed to write()
    lbWrites,    \* history: number of write() calls made
    lbThrown,    \* TRUE when a write() raised a RangeError
    ctxRequestId,\* context -> the requestId field of that XrayContext
    contextMap,  \* context -> its RequestState, or Undefined (the WeakMap of state.ts)
    spans,       \* context -> the span opened for it
    returned,    \* history: context -> the logs endRequest returned for it
    genCount,    \* number of request ids generated so far
    loggerOut,   \* what reached config.logger: a sequence of [level, message]
    logLevel,    \* config.logLevel
    lastOp,      \* history: the operation performed last and how it ended
    opCount,     \* history: number of context mutations performed
    ad,          \* the adapter's variables for the request it handles
    fc,          \* body capture of the fetch adapters: streams, buffers, the request
    mr,          \* an emitter serving several requests: context -> state, log, config
    rd,          \* a redaction call: its configuration, its input and its result
    fn           \* a call of one of the other functions: its input and its result

lbVars == <<lb, lbWritten, lbWrites, lbThrown>>
coreVars == <<ctxRequestId, contextMap, spans, returned, genCount, loggerOut, logLevel,
              lastOp, opCount>>

vars == <<lb, lbWritten, lbWrites, lbThrown, ctxRequestId, contextMap, spans, returned,
          genCount, loggerOut, logLevel, lastOp, opCount, ad, fc, mr, rd, fn>>

\* the variables of the capture, of the several requests, of the redaction and of
\* the function calls
extVars == <<fc, mr, rd, fn>>
ExtIdle == fc = <<>> /\ mr = <<>> /\ rd = <<>> /\ fn = <<>>

Min(a, b) == IF a < b THEN a ELSE b
Max(a, b) == IF a > b THEN a ELSE b

(***************************************************************************)
(* Byte arrays.  A Uint8Array is kept run-length encoded: a sequence of    *)
(* <<byte, count>> runs with count > 0 and no two adjacent runs of the     *)
(* same byte, so that equal arrays have equal representations and arrays   *)
(* of tens of thousands of bytes stay small.                               *)
(***************************************************************************)
RLen(r) == LET F[i \in 0..Len(r)] == IF i = 0 THEN 0 ELSE F[i - 1] + r[i][2]
           IN F[Len(r)]

\* concatenation, merging the runs that meet
RCat(a, b) ==
    IF a = <<>> THEN b
    ELSE IF b = <<>> THEN a
    ELSE IF a[Len(a)][1] = b[1][1]
         THEN SubSeq(a, 1, Len(a) - 1)
              \o << <<b[1][1], a[Len(a)][2] + b[1][2]>> >>
              \o SubSeq(b, 2, Len(b))
         ELSE a \o b

\* subarray(0, n): the first n bytes (all of r when n >= length)
RECURSIVE RTake(_, _)
RTake(r, n) ==
    IF n <= 0 \/ r = <<>> THEN <<>>
    ELSE IF r[1][2] >= n THEN << <<r[1][1], n>> >>
    ELSE RCat(<< r[1] >>, RTake(Tail(r), n - r[1][2]))

\* subarray(n): everything after the first n bytes
RECURSIVE RDrop(_, _)
RDrop(r, n) ==
    IF r = <<>> THEN <<>>
    ELSE IF n <= 0 THEN r
    ELSE IF r[1][2] > n THEN << <<r[1][1], r[1][2] - n>> >> \o Tail(r)
    ELSE RDrop(Tail(r), n - r[1][2])

\* new Uint8Array(n): n zero bytes
RZeros(n) == IF n <= 0 THEN <<>> ELSE << <<0, n>> >>

\* target.set(source, offset); JavaScript raises a RangeError when the source
\* does not fit, which the result "ok" = FALSE stands for
RSet(target, source, offset) ==
    IF offset + RLen(source) > RLen(target)
    THEN [ok |-> FALSE, buffer |-> target]
    ELSE [ok |-> TRUE,
          buffer |-> RCat(RCat(RTake(target, offset), source),
                          RDrop(target, offset + RLen(source)))]


(***************************************************************************)
(* LimitedBuffer                                                           *)
(***************************************************************************)
InitialCapMax == 32768

\* constructor(limit): a limit that is not finite, or negative, counts as 0
LimitedBufferNew(limit) ==
    LET normalized == IF limit.finite THEN Max(0, limit.value) ELSE 0
        initialCap == Min(normalized, InitialCapMax)
    IN [buffer |-> RZeros(initialCap), length |-> 0, limit |-> normalized,
        truncatedFlag |-> FALSE, total |-> 0]

LBBytes(b) == RTake(b.buffer, b.length)
LBCapturedBytes(b) == b.length
LBTotalBytes(b) == b.total
LBTruncated(b) == b.truncatedFlag

RECURSIVE DoubleUntil(_, _)
DoubleUntil(nextSize, size) ==
    IF nextSize < size THEN DoubleUntil(nextSize * 2, size) ELSE nextSize

\* the uncapped growth a missing limit check would give
EnsureCapacityUncapped(b, size) ==
    IF RLen(b.buffer) >= size THEN b
    ELSE LET start == IF RLen(b.buffer) = 0 THEN 1 ELSE RLen(b.buffer)
             nextSize == DoubleUntil(start, size)
         IN [b EXCEPT !.buffer = RSet(RZeros(nextSize), RTake(b.buffer, b.length), 0).buffer]

EnsureCapacity(b, size) ==
    IF RLen(b.buffer) >= size THEN b
    ELSE LET start == IF RLen(b.buffer) = 0 THEN 1 ELSE RLen(b.buffer)
             doubled == DoubleUntil(start, size)
             nextSize == IF doubled > b.limit THEN b.limit ELSE doubled
         IN [b EXCEPT !.buffer = RSet(RZeros(nextSize), RTake(b.buffer, b.length), 0).buffer]

\* a write that forgets to flag the chunk cut at the limit
LBWriteNoPartialFlag(b, chunk) ==
    IF RLen(chunk) = 0 THEN [ok |-> TRUE, b |-> b]
    ELSE LET counted == [b EXCEPT !.total = b.total + RLen(chunk)]
             remaining == b.limit - b.length
             toCopy == Min(remaining, RLen(chunk))
             grown == EnsureCapacity(counted, b.length + toCopy)
             put == RSet(grown.buffer, RTake(chunk, toCopy), b.length)
         IN IF b.limit <= 0 \/ remaining <= 0
            THEN [ok |-> TRUE, b |-> [counted EXCEPT !.truncatedFlag = TRUE]]
            ELSE [ok |-> put.ok,
                  b |-> IF put.ok
                        THEN [grown EXCEPT !.buffer = put.buffer, !.length = b.length + toCopy]
                        ELSE grown]

\* write(chunk); "ok" is FALSE when buffer.set raised
LBWrite(b, chunk) ==
    IF RLen(chunk) = 0 THEN [ok |-> TRUE, b |-> b]
    ELSE LET counted == [b EXCEPT !.total = b.total + RLen(chunk)]
             remaining == b.limit - b.length
             toCopy == Min(remaining, RLen(chunk))
             grown == EnsureCapacity(counted, b.length + toCopy)
             put == RSet(grown.buffer, RTake(chunk, toCopy), b.length)
         IN IF b.limit <= 0 \/ remaining <= 0
            THEN [ok |-> TRUE, b |-> [counted EXCEPT !.truncatedFlag = TRUE]]
            ELSE [ok |-> put.ok,
                  b |-> IF put.ok
                        THEN [grown EXCEPT !.buffer = put.buffer,
                                           !.length = b.length + toCopy,
                                           !.truncatedFlag = (toCopy < RLen(chunk)) \/ @]
                        ELSE grown]

(***************************************************************************)
(* Optional values and strings.  undefined is the empty sequence and a     *)
(* defined value x is <<x>>.  A string whose characters matter (request    *)
(* ids, header names) is a sequence of one-character strings.              *)
(***************************************************************************)
Undefined == <<>>
Some(x) == <<x>>
IsDefined(o) == o # <<>>
Get(o) == o[1]

EmptyString == <<>>
IsWhitespace(c) == c = " "

RECURSIVE TrimStart(_)
TrimStart(s) == IF s # <<>> /\ IsWhitespace(Head(s)) THEN TrimStart(Tail(s)) ELSE s

RECURSIVE TrimEnd(_)
TrimEnd(s) ==
    IF s # <<>> /\ IsWhitespace(s[Len(s)]) THEN TrimEnd(SubSeq(s, 1, Len(s) - 1)) ELSE s

\* String.prototype.trim
Trim(s) == TrimEnd(TrimStart(s))

UpperLetters == <<"A", "B", "C", "D", "E", "F", "G", "H", "I", "J", "K", "L", "M",
                  "N", "O", "P", "Q", "R", "S", "T", "U", "V", "W", "X", "Y", "Z">>
LowerLetters == <<"a", "b", "c", "d", "e", "f", "g", "h", "i", "j", "k", "l", "m",
                  "n", "o", "p", "q", "r", "s", "t", "u", "v", "w", "x", "y", "z">>

LowerTable ==
    [c \in {UpperLetters[i] : i \in 1..Len(UpperLetters)} |->
        LowerLetters[CHOOSE i \in 1..Len(UpperLetters) : UpperLetters[i] = c]]
UpperTable ==
    [c \in {LowerLetters[i] : i \in 1..Len(LowerLetters)} |->
        UpperLetters[CHOOSE i \in 1..Len(LowerLetters) : LowerLetters[i] = c]]

LowerChar(c) == IF c \in DOMAIN LowerTable THEN LowerTable[c] ELSE c

UpperChar(c) == IF c \in DOMAIN UpperTable THEN UpperTable[c] ELSE c

\* String.prototype.toLowerCase
ToLowerCase(s) == [i \in 1..Len(s) |-> LowerChar(s[i])]

(***************************************************************************)
(* Logger                                                                  *)
(***************************************************************************)
LogLevels == {"debug", "info", "warn", "error"}

LogLevelOrder(level) ==
    CASE level = "debug" -> 10
      [] level = "info" -> 20
      [] level = "warn" -> 30
      [] level = "error" -> 40

\* logWithLevel(logger, level, threshold, message): the logger's output afterwards
LogWithLevel(out, level, threshold, message) ==
    IF LogLevelOrder(level) < LogLevelOrder(threshold)
    THEN out
    ELSE Append(out, [level |-> level, message |-> message])

(***************************************************************************)
(* Request ids                                                             *)
(***************************************************************************)
RequestIdPrefix == <<"r", "e", "q", "_">>

\* generateRequestId(): "req_" followed by the base-48 rendering of a fresh
\* UUIDv7; the n-th identifier generated is told apart by its n-character tail
GenerateRequestId(n) == RequestIdPrefix \o [i \in 1..n |-> "g"]

\* normalizeRequestIdCandidate(value) of emitter.ts
NormalizeRequestIdCandidate(value) ==
    IF ~IsDefined(value) \/ Get(value) = EmptyString
    THEN Undefined
    ELSE LET trimmed == Trim(Get(value))
         IN IF trimmed # EmptyString THEN Some(trimmed) ELSE Undefined

\* a header value is one string or an array of strings; value[0] of an array
HeaderFirstEntry(value) ==
    IF value.isArray
    THEN (IF value.entries = <<>> THEN Undefined ELSE Some(value.entries[1]))
    ELSE Some(value.entries[1])

\* the loop of resolveHeaderRequestId over Object.entries(headers)
RECURSIVE HeaderRequestIdFrom(_, _)
HeaderRequestIdFrom(target, entries) ==
    IF entries = <<>> THEN Undefined
    ELSE IF ToLowerCase(Head(entries).name) # target
         THEN HeaderRequestIdFrom(target, Tail(entries))
         ELSE LET normalized == NormalizeRequestIdCandidate(HeaderFirstEntry(Head(entries).value))
              IN IF IsDefined(normalized) THEN normalized
                 ELSE HeaderRequestIdFrom(target, Tail(entries))

ResolveHeaderRequestId(headerName, headers) ==
    IF ~IsDefined(headers) THEN Undefined
    ELSE HeaderRequestIdFrom(ToLowerCase(headerName), Get(headers))

\* a resolution that looks at the response header before the explicit id
ResolveFinalRequestIdHeaderFirst(headerName, explicitRequestId, responseHeaders, generated) ==
    LET explicit == NormalizeRequestIdCandidate(explicitRequestId)
        headerValue == ResolveHeaderRequestId(headerName, responseHeaders)
    IN IF IsDefined(headerValue) THEN [id |-> Get(headerValue), generated |-> FALSE]
       ELSE IF IsDefined(explicit) THEN [id |-> Get(explicit), generated |-> FALSE]
       ELSE [id |-> generated, generated |-> TRUE]

\* resolveFinalRequestId; "generated" tells whether generateRequestId() was called
ResolveFinalRequestId(headerName, explicitRequestId, responseHeaders, generated) ==
    LET explicit == NormalizeRequestIdCandidate(explicitRequestId)
        headerValue == ResolveHeaderRequestId(headerName, responseHeaders)
    IN IF IsDefined(explicit) THEN [id |-> Get(explicit), generated |-> FALSE]
       ELSE IF IsDefined(headerValue) THEN [id |-> Get(headerValue), generated |-> FALSE]
       ELSE [id |-> generated, generated |-> TRUE]

\* a || b on an optional string a and a string b
OrElse(a, b) == IF IsDefined(a) /\ Get(a) # EmptyString THEN a ELSE Some(b)

(***************************************************************************)
(* The emitter: startRequest, the context operations and endRequest        *)
(***************************************************************************)
\* config.requestId.header after normalizeRequestId: the default, 'request-id'
ConfigRequestIdHeader == <<"r", "e", "q", "u", "e", "s", "t", "-", "i", "d">>
ConfigServiceName == "svc"

\* span attributes are a map, kept as a set of <<key, value>> pairs
MapSet(m, key, value) == {p \in m : p[1] # key} \cup {<<key, value>>}

\* spanNameFromRequest(req)
SpanNameFromRequest(req) ==
    [method |-> IF req.method = "" THEN "GET" ELSE req.method,
     target |-> IF IsDefined(req.route) THEN Get(req.route) ELSE req.path]

\* spanFromTracer(tracer, name)
NewSpan(name) ==
    [name |-> name, attributes |-> {}, events |-> <<>>, exceptions |-> 0,
     status |-> "UNSET", endCalls |-> 0]

\* one call on the span
ApplySpanOp(span, op) ==
    CASE op.kind = "setAttribute" ->
            [span EXCEPT !.attributes = MapSet(@, op.key, op.value)]
      [] op.kind = "updateName" -> [span EXCEPT !.name = op.value]
      [] op.kind = "addEvent" -> [span EXCEPT !.events = Append(@, op.value)]
      [] op.kind = "recordException" -> [span EXCEPT !.exceptions = @ + 1]
      [] op.kind = "setStatus" -> [span EXCEPT !.status = "ERROR"]
      [] op.kind = "end" -> [span EXCEPT !.endCalls = @ + 1]

RECURSIVE ApplySpanOps(_, _)
ApplySpanOps(span, ops) ==
    IF ops = <<>> THEN span ELSE ApplySpanOps(ApplySpanOp(span, Head(ops)), Tail(ops))

AttrOp(key, value) == [kind |-> "setAttribute", key |-> key, value |-> value]
PlainOp(kind) == [kind |-> kind, key |-> "", value |-> ""]
NameOp(name) == [kind |-> "updateName", key |-> "", value |-> name]

\* spanStatusFromError(span, err)
SpanStatusFromErrorOps == <<PlainOp("recordException"), PlainOp("setStatus")>>

\* buildError(err)
BuildError(err) ==
    IF ~IsDefined(err) THEN Undefined
    ELSE IF Get(err).isError
         THEN Some([message |-> IF Get(err).message = "" THEN "Error" ELSE Get(err).message,
                    type |-> IF Get(err).name = "" THEN "Error" ELSE Get(err).name])
         ELSE Some([message |-> Get(err).message, type |-> ""])

\* err ?? state.error
Coalesce(a, b) == IF IsDefined(a) THEN a ELSE b

\* startRequest(req): the context's requestId, the state bound to it and the span
StartRequestResult(req) ==
    LET explicitRequestId == NormalizeRequestIdCandidate(req.requestId)
        request == [req EXCEPT !.requestId = explicitRequestId]
    IN [requestId |-> IF IsDefined(explicitRequestId) THEN Get(explicitRequestId)
                      ELSE EmptyString,
        state |-> [request |-> request, attributes |-> {}, events |-> <<>>,
                   userId |-> Undefined, sessionId |-> Undefined, error |-> Undefined],
        span |-> NewSpan(SpanNameFromRequest(request))]

\* a url is its part before the query and its query parameters, in order
Url(base, query) == [base |-> base, query |-> query]
EmptyUrl == Url("", <<>>)

\* config.redaction of the modelled service: one query parameter is redacted
ConfigRedactionQueryParams == {<<"t", "o", "k", "e", "n">>}
ConfigRedactionReplacement == "[REDACTED]"

\* redactUrl(value, config): the value of every query parameter whose lower-cased
\* name is listed becomes the replacement
RedactUrl(url) ==
    IF url = EmptyUrl \/ ConfigRedactionQueryParams = {} THEN url
    ELSE IF url.query = <<>> THEN url
    ELSE LET redact == {ToLowerCase(key) : key \in ConfigRedactionQueryParams}
         IN [url EXCEPT !.query =
                [i \in 1..Len(url.query) |->
                    IF ToLowerCase(url.query[i][1]) \in redact
                    THEN <<url.query[i][1], ConfigRedactionReplacement>>
                    ELSE url.query[i]]]

\* applyRedaction(redaction, log): of the fields this log has, the url is rewritten
ApplyRedaction(log) == [log EXCEPT !.url = RedactUrl(@)]

\* the log endRequest returns when no state is found for the context
FallbackLog(requestId, res) ==
    [requestId |-> requestId, serviceName |-> ConfigServiceName, method |-> "UNKNOWN",
     url |-> EmptyUrl, route |-> Undefined, statusCode |-> res.statusCode, durationMs |-> 0,
     userId |-> Undefined, sessionId |-> Undefined, error |-> Undefined,
     attributes |-> Undefined]

\* the log with the duration left as the plain difference of the times
BuildLogUnclamped(state, requestId, res, err) ==
    [requestId |-> requestId, serviceName |-> ConfigServiceName,
     method |-> state.request.method, url |-> state.request.url,
     route |-> state.request.route, statusCode |-> res.statusCode,
     durationMs |-> res.endTimeMs - state.request.startTimeMs,
     userId |-> state.userId, sessionId |-> state.sessionId,
     error |-> BuildError(Coalesce(err, state.error)),
     attributes |-> IF state.attributes # {} THEN Some(state.attributes) ELSE Undefined]

\* the log endRequest builds from the state (emitter.ts, const log)
BuildLog(state, requestId, res, err) ==
    [requestId |-> requestId, serviceName |-> ConfigServiceName,
     method |-> state.request.method, url |-> state.request.url,
     route |-> state.request.route, statusCode |-> res.statusCode,
     durationMs |-> Max(0, res.endTimeMs - state.request.startTimeMs),
     userId |-> state.userId, sessionId |-> state.sessionId,
     error |-> BuildError(Coalesce(err, state.error)),
     attributes |-> IF state.attributes # {} THEN Some(state.attributes) ELSE Undefined]


\* the span calls of endRequest's try block, in order
SpanFinalizeOps(state, redacted, err) ==
    <<AttrOp("http.request.method", state.request.method),
      AttrOp("url.full", redacted.url),
      AttrOp("url.path", state.request.path),
      AttrOp("stainlessxray.request.id", redacted.requestId),
      AttrOp("service.name", ConfigServiceName)>>
    \o (IF IsDefined(redacted.statusCode)
        THEN <<AttrOp("http.response.status_code", Get(redacted.statusCode))>> ELSE <<>>)
    \o (IF IsDefined(redacted.route)
        THEN <<AttrOp("http.route", Get(redacted.route)),
               NameOp([method |-> state.request.method, target |-> Get(redacted.route)])>>
        ELSE <<NameOp(SpanNameFromRequest(state.request))>>)
    \o (IF IsDefined(state.userId) /\ Get(state.userId) # ""
        THEN <<AttrOp("user.id", Get(state.userId))>> ELSE <<>>)
    \o (IF IsDefined(Coalesce(err, state.error)) THEN SpanStatusFromErrorOps ELSE <<>>)
    \o <<PlainOp("end")>>

\* a try block without its catch: the failure of a span call leaves endRequest
FinalizeSpanUncaught(span, ops, failAt) ==
    LET fails == failAt \in 1..Len(ops)
        done == IF fails THEN SubSeq(ops, 1, failAt - 1) ELSE ops
    IN [span |-> ApplySpanOps(span, done), caught |-> FALSE, propagated |-> fails]

\* the try/catch around the span calls: the call number failAt throws (0: none does)
FinalizeSpan(span, ops, failAt) ==
    LET fails == failAt \in 1..Len(ops)
        done == IF fails THEN SubSeq(ops, 1, failAt - 1) ELSE ops
    IN [span |-> ApplySpanOps(span, done), caught |-> fails, propagated |-> FALSE]

\* endRequest(ctx, res, err) for a context whose state is "state" (or Undefined);
\* "generated" is the identifier generateRequestId() would return
EndRequestResult(requestIdOfCtx, state, span, res, err, failAt, generated, out, threshold) ==
    IF ~IsDefined(state)
    THEN LET r == ResolveFinalRequestId(ConfigRequestIdHeader, Some(requestIdOfCtx),
                                        res.headers, generated)
         IN [outcome |-> "returned", log |-> Some(FallbackLog(r.id, res)),
             requestId |-> r.id, state |-> state, span |-> span, out |-> out,
             generated |-> r.generated, spanFailed |-> FALSE]
    ELSE LET st == Get(state)
             r == ResolveFinalRequestId(ConfigRequestIdHeader,
                                        OrElse(st.request.requestId, requestIdOfCtx),
                                        res.headers, generated)
             st2 == [st EXCEPT !.request.requestId = Some(r.id)]
             redacted == ApplyRedaction(BuildLog(st, r.id, res, err))
             fin == FinalizeSpan(span, SpanFinalizeOps(st, redacted, err), failAt)
         IN [outcome |-> IF fin.propagated THEN "threw" ELSE "returned",
             log |-> IF fin.propagated THEN Undefined ELSE Some(redacted),
             requestId |-> r.id, state |-> Some(st2), span |-> fin.span,
             out |-> IF fin.caught
                     THEN LogWithLevel(out, "warn", threshold, "xray: span finalize failed")
                     ELSE out,
             generated |-> r.generated,
             spanFailed |-> fin.caught \/ fin.propagated]

(***************************************************************************)
(* Operations on the emitter.  Context 0 is a context object the caller    *)
(* made itself: startRequest never bound a state to it.                    *)
(***************************************************************************)
Ctxs == {1}
ForeignCtx == CHOOSE c \in 0..1 : c \notin Ctxs
AllCtxs == Ctxs \cup {ForeignCtx}

Started(c) == IsDefined(spans[c])

NoOp == [name |-> "none", ctx |-> ForeignCtx, outcome |-> "returned", spanFailed |-> FALSE,
         headers |-> Undefined, err |-> Undefined]
Op(name, c) == [NoOp EXCEPT !.name = name, !.ctx = c]

\* getContextState(ctx)
GetContextState(c) == contextMap[c]

StartRequest(c, req) ==
    /\ c \in Ctxs
    /\ ~Started(c)
    /\ LET r == StartRequestResult(req)
       IN /\ ctxRequestId' = [ctxRequestId EXCEPT ![c] = r.requestId]
          /\ contextMap' = [contextMap EXCEPT ![c] = Some(r.state)]
          /\ spans' = [spans EXCEPT ![c] = Some(r.span)]
    /\ lastOp' = Op("startRequest", c)
    /\ UNCHANGED <<returned, genCount, loggerOut, logLevel, opCount>>

\* a context operation: "change" gives the new state, "ops" the span calls made
ContextOperation(c, name, change(_), ops) ==
    /\ c \in Ctxs
    /\ Started(c)
    /\ lastOp' = Op(name, c)
    /\ opCount' = opCount + 1
    /\ IF ~IsDefined(GetContextState(c))
       THEN UNCHANGED <<contextMap, spans>>
       ELSE /\ contextMap' = [contextMap EXCEPT ![c] = Some(change(Get(GetContextState(c))))]
            /\ spans' = [spans EXCEPT ![c] = Some(ApplySpanOps(Get(spans[c]), ops))]
    /\ UNCHANGED <<ctxRequestId, returned, genCount, loggerOut, logLevel>>

SetUserId(c, id) ==
    LET change(st) == [st EXCEPT !.userId = Some(id)]
    IN ContextOperation(c, "setUserId", change,
                        IF id # "" THEN <<AttrOp("user.id", id)>> ELSE <<>>)

SetSessionId(c, id) ==
    LET change(st) == [st EXCEPT !.sessionId = Some(id)]
    IN ContextOperation(c, "setSessionId", change, <<>>)

SetAttribute(c, key, value) ==
    LET change(st) == [st EXCEPT !.attributes = MapSet(@, key, value)]
    IN ContextOperation(c, "setAttribute", change, <<AttrOp(key, value)>>)

AddEvent(c, name) ==
    LET change(st) == [st EXCEPT !.events = Append(@, name)]
    IN ContextOperation(c, "addEvent", change,
                        <<[kind |-> "addEvent", key |-> "", value |-> name]>>)

SetError(c, err) ==
    LET change(st) == [st EXCEPT !.error = Some(err)]
    IN ContextOperation(c, "setError", change, SpanStatusFromErrorOps)

\* setContextRequestId(ctx, requestId) of core/internal.ts
SetContextRequestId(c, requestId) ==
    /\ c \in Ctxs
    /\ Started(c)
    /\ lastOp' = Op("setContextRequestId", c)
    /\ IF ~IsDefined(GetContextState(c))
       THEN UNCHANGED <<contextMap, ctxRequestId>>
       ELSE /\ contextMap' = [contextMap EXCEPT
                                ![c] = Some([Get(@) EXCEPT !.request.requestId = Some(requestId)])]
            /\ ctxRequestId' = [ctxRequestId EXCEPT ![c] = requestId]
    /\ UNCHANGED <<spans, returned, genCount, loggerOut, logLevel, opCount>>

\* endRequest(ctx, res, err), the span call number failAt throwing (0: none)
EndRequest(c, res, err, failAt) ==
    /\ c = ForeignCtx \/ Started(c)
    /\ LET r == EndRequestResult(ctxRequestId[c], GetContextState(c),
                                 IF Started(c) THEN Get(spans[c]) ELSE NewSpan(""),
                                 res, err, failAt, GenerateRequestId(genCount + 1),
                                 loggerOut, logLevel)
       IN /\ ctxRequestId' = [ctxRequestId EXCEPT ![c] = r.requestId]
          /\ contextMap' = [contextMap EXCEPT ![c] = r.state]
          /\ spans' = IF Started(c) THEN [spans EXCEPT ![c] = Some(r.span)] ELSE spans
          /\ returned' = IF IsDefined(r.log)
                         THEN [returned EXCEPT ![c] = Append(@, Get(r.log))]
                         ELSE returned
          /\ genCount' = IF r.generated THEN genCount + 1 ELSE genCount
          /\ loggerOut' = r.out
          /\ lastOp' = [name |-> "endRequest", ctx |-> c, outcome |-> r.outcome,
                        spanFailed |-> r.spanFailed, headers |-> res.headers,
                        err |-> err]
    /\ UNCHANGED <<logLevel, opCount>>

\* the span calls endRequest would make for context c
SpanOpsAtEnd(c, res, err) ==
    IF IsDefined(GetContextState(c))
    THEN LET st == Get(GetContextState(c))
             r == ResolveFinalRequestId(ConfigRequestIdHeader,
                                        OrElse(st.request.requestId, ctxRequestId[c]),
                                        res.headers, GenerateRequestId(genCount + 1))
         IN SpanFinalizeOps(st, ApplyRedaction(BuildLog(st, r.id, res, err)), err)
    ELSE <<>>

\* ---- inputs
IdChars == {" ", "A"}
MaxIdLen == 2
IdStrings == UNION {[1..n -> IdChars] : n \in 0..MaxIdLen}

HeaderCanonical == <<"R", "e", "q", "u", "e", "s", "t", "-", "I", "d">>
HeaderOther == <<"e", "t", "a", "g">>
HeaderNameInputs == {ConfigRequestIdHeader, HeaderCanonical, HeaderOther}
StringValue(s) == [isArray |-> FALSE, entries |-> <<s>>]
ArrayValue(a) == [isArray |-> TRUE, entries |-> a]
Header(name, value) == [name |-> name, value |-> value]
HeaderValueInputs ==
    {StringValue(s) : s \in IdStrings}
    \cup {ArrayValue(<<>>)}
    \cup {ArrayValue(<<s, <<"A">>>>) : s \in IdStrings}
\* no headers, one header, and two headers of which the first is blank, of
\* another name, or carries an identifier of its own
HeadersInputs ==
    {Undefined, Some(<<>>)}
    \cup {Some(<<Header(n, v)>>) : n \in HeaderNameInputs, v \in HeaderValueInputs}
    \cup {Some(<<Header(HeaderCanonical, StringValue(first)),
                 Header(ConfigRequestIdHeader, StringValue(second))>>) :
             first \in {EmptyString, <<" ">>, <<"A">>}, second \in IdStrings}
    \cup {Some(<<Header(HeaderOther, StringValue(<<"A">>)),
                 Header(HeaderCanonical, StringValue(second))>>) : second \in IdStrings}

Request(requestId) ==
    [method |-> "GET",
     url |-> Url("http://h/a", << <<<<"T", "o", "k", "e", "n">>, "s3cret">>,
                                  <<<<"p", "a", "g", "e">>, "1">> >>),
     path |-> "/a", route |-> Undefined,
     requestId |-> requestId, startTimeMs |-> 1000]
\* res.endTimeMs of the modelled calls: 123 ms after the request started
EndTimeMs == 1123
Response(headers, endTimeMs) ==
    [statusCode |-> Some(200), headers |-> headers, endTimeMs |-> endTimeMs]

ErrorInputs == {[isError |-> TRUE, message |-> "boom", name |-> "TypeError"],
                [isError |-> FALSE, message |-> "rejected", name |-> ""]}

CoreIdle ==
    /\ ctxRequestId = [c \in AllCtxs |-> EmptyString]
    /\ contextMap = [c \in AllCtxs |-> Undefined]
    /\ spans = [c \in AllCtxs |-> Undefined]
    /\ returned = [c \in AllCtxs |-> <<>>]
    /\ genCount = 0
    /\ loggerOut = <<>>
    /\ logLevel = "warn"
    /\ lastOp = NoOp
    /\ opCount = 0

BufIdle ==
    /\ lb = LimitedBufferNew([finite |-> TRUE, value |-> 0])
    /\ lbWritten = <<>>
    /\ lbWrites = 0
    /\ lbThrown = FALSE

(***************************************************************************)
(* The adapters.  One request is followed through wrapHttpHandler (node),  *)
(* wrapFetch (fetch), wrapFetchPreserve (preserve) or the effect           *)
(* middleware (effect).  Response headers are a sequence of headers whose  *)
(* names are lower-cased, one per name, as res.getHeaders() and the        *)
(* Headers class keep them.                                                *)
(***************************************************************************)
AdapterKinds == {"node", "fetch", "preserve", "effect"}
\* the element of a one-element set: a step computed once, whose result the
\* following steps read
Only(S) == CHOOSE x \in S : TRUE

HookKinds == {"absent", "returns", "throws"}
HookMessage(which) ==
    CASE which = "onRequest" -> "xray: onRequest failed"
      [] which = "onResponse" -> "xray: onResponse failed"
      [] which = "onError" -> "xray: onError failed"

\* a hook called without a try/catch around it: what it throws leaves the adapter
CallHookUnguarded(hook, out, threshold, message) ==
    [out |-> out, called |-> hook # "absent", threw |-> hook = "throws",
     escaped |-> hook = "throws"]

\* if (options?.onX) { try { options.onX(...) } catch (err) { logWithLevel(.., 'warn', ..) } }
CallHook(hook, out, threshold, message) ==
    [out |-> IF hook = "throws" THEN LogWithLevel(out, "warn", threshold, message) ELSE out,
     called |-> hook # "absent", threw |-> hook = "throws", escaped |-> FALSE]

\* the guarded hook calls of one code path, in order; a call is not reached when
\* an earlier one let its exception escape
RECURSIVE RunHooks(_, _, _, _)
RunHooks(a, out, threshold, calls) ==
    IF calls = <<>> \/ a.hookEscaped THEN [a |-> a, out |-> out]
    ELSE Only({RunHooks([a EXCEPT !.calls[Head(calls)] = @ + (IF h.called THEN 1 ELSE 0),
                                  !.hookThrows = @ + (IF h.threw THEN 1 ELSE 0),
                                  !.hookEscaped = h.escaped],
                        h.out, threshold, Tail(calls)) :
               h \in {CallHook(a.opts[Head(calls)], out, threshold,
                               HookMessage(Head(calls)))}})

\* ---- header collections
HeaderIndex(headers, name) ==
    {i \in 1..Len(headers) : headers[i].name = ToLowerCase(name)}

\* res.getHeader(name) and headers.get(name)
GetHeader(headers, name) ==
    IF HeaderIndex(headers, name) = {} THEN Undefined
    ELSE Some(headers[CHOOSE i \in HeaderIndex(headers, name) : TRUE].value)

\* res.setHeader(name, value): the value replaces the one kept under that name
SetHeader(headers, name, value) ==
    IF HeaderIndex(headers, name) = {}
    THEN Append(headers, Header(ToLowerCase(name), value))
    ELSE [i \in 1..Len(headers) |->
            IF i \in HeaderIndex(headers, name) THEN Header(headers[i].name, value)
            ELSE headers[i]]

\* headers.set(name, value) of the Headers class: one string, its surrounding
\* whitespace removed
FetchHeadersSet(headers, name, value) == SetHeader(headers, name, StringValue(Trim(value)))

\* new Headers(init) for a list of name and value pairs
RECURSIVE NewHeaders(_)
NewHeaders(init) ==
    IF init = <<>> THEN <<>>
    ELSE FetchHeadersSet(NewHeaders(SubSeq(init, 1, Len(init) - 1)),
                         init[Len(init)].name, init[Len(init)].value.entries[1])

\* headerValuesFromNodeHeaders: an array of one entry becomes that entry, an
\* empty array is left out
RECURSIVE HeaderValuesFromNodeHeaders(_)
HeaderValuesFromNodeHeaders(headers) ==
    IF headers = <<>> THEN <<>>
    ELSE LET h == Head(headers)
             rest == HeaderValuesFromNodeHeaders(Tail(headers))
         IN IF Trim(h.name) = EmptyString THEN rest
            ELSE IF ~h.value.isArray THEN <<Header(Trim(h.name), h.value)>> \o rest
            ELSE IF h.value.entries = <<>> THEN rest
            ELSE IF Len(h.value.entries) = 1
                 THEN <<Header(Trim(h.name), StringValue(h.value.entries[1]))>> \o rest
            ELSE <<Header(Trim(h.name), h.value)>> \o rest

\* headerValuesFromFetchHeaders: every value of a Headers object is one string
HeaderValuesFromFetchHeaders(headers) ==
    SelectSeq([i \in 1..Len(headers) |-> Header(Trim(headers[i].name), headers[i].value)],
              LAMBDA h : h.name # EmptyString)

\* effectHeadersToRecord: the string values only
EffectHeadersToRecord(headers) == SelectSeq(headers, LAMBDA h : ~h.value.isArray)

\* headerName.split('-')
RECURSIVE SplitDash(_)
SplitDash(s) ==
    IF s = <<>> THEN << <<>> >>
    ELSE LET rest == SplitDash(Tail(s))
         IN IF Head(s) = "-" THEN << <<>> >> \o rest
            ELSE << <<Head(s)>> \o Head(rest) >> \o Tail(rest)

\* parts.join('-')
RECURSIVE JoinDash(_)
JoinDash(parts) ==
    IF parts = <<>> THEN <<>>
    ELSE IF Len(parts) = 1 THEN parts[1]
    ELSE parts[1] \o <<"-">> \o JoinDash(Tail(parts))

\* canonicalHeaderName(headerName)
CanonicalHeaderName(headerName) ==
    LET parts == SelectSeq(SplitDash(headerName), LAMBDA p : p # <<>>)
    IN JoinDash([i \in 1..Len(parts) |-> <<UpperChar(parts[i][1])>> \o Tail(parts[i])])

\* headerValueFromNode(res.getHeader(headerName))
HeaderValueFromNode(value) ==
    IF ~IsDefined(value) THEN Undefined
    ELSE NormalizeRequestIdCandidate(HeaderFirstEntry(Get(value)))

\* ensureResponseRequestId(res, ctx, xray) of the node adapter: the headers of res
\* afterwards, and whether generateRequestId() was called
EnsureResponseRequestId(headers, requestIdOfCtx, generated) ==
    LET headerName == ConfigRequestIdHeader
        existing == HeaderValueFromNode(GetHeader(headers, headerName))
        explicit == NormalizeRequestIdCandidate(Some(requestIdOfCtx))
    IN IF IsDefined(existing)
       THEN [headers |-> headers, set |-> FALSE, generated |-> FALSE, value |-> existing]
       ELSE IF IsDefined(explicit)
       THEN [headers |-> SetHeader(headers, CanonicalHeaderName(headerName),
                                   StringValue(Get(explicit))),
             set |-> TRUE, generated |-> FALSE, value |-> explicit]
       ELSE [headers |-> SetHeader(headers, CanonicalHeaderName(headerName),
                                   StringValue(generated)),
             set |-> TRUE, generated |-> TRUE, value |-> Some(generated)]

\* ensureResponseRequestIdHeaders(headers, ctx, xray) of the fetch adapter
EnsureResponseRequestIdHeaders(headers, requestIdOfCtx, generated) ==
    LET headerName == ConfigRequestIdHeader
        got == GetHeader(headers, headerName)
        existing == NormalizeRequestIdCandidate(
                        IF IsDefined(got) THEN Some(Get(got).entries[1]) ELSE Undefined)
        explicit == NormalizeRequestIdCandidate(Some(requestIdOfCtx))
    IN IF IsDefined(existing)
       THEN [headers |-> headers, set |-> FALSE, generated |-> FALSE, value |-> existing]
       ELSE IF IsDefined(explicit)
       THEN [headers |-> FetchHeadersSet(headers, CanonicalHeaderName(headerName),
                                         Get(explicit)),
             set |-> TRUE, generated |-> FALSE, value |-> explicit]
       ELSE [headers |-> FetchHeadersSet(headers, CanonicalHeaderName(headerName), generated),
             set |-> TRUE, generated |-> TRUE, value |-> Some(generated)]

\* ResponseRecorder.applyWriteHeadHeaders(res, args): the headers argument is an
\* object, a flat array of names and values, or an array of pairs
RECURSIVE ApplyFlatArray(_, _)
ApplyFlatArray(headers, items) ==
    IF Len(items) < 2 THEN headers
    ELSE ApplyFlatArray(SetHeader(headers, items[1], StringValue(items[2])),
                        SubSeq(items, 3, Len(items)))

RECURSIVE ApplyEntries(_, _)
ApplyEntries(headers, entries) ==
    IF entries = <<>> THEN headers
    ELSE ApplyEntries(SetHeader(headers, Head(entries).name, Head(entries).value),
                      Tail(entries))

ApplyWriteHeadHeaders(headers, arg) ==
    CASE arg.form = "none" -> headers
      [] arg.form = "flat" -> ApplyFlatArray(headers, arg.items)
      [] arg.form = "pairs" -> ApplyEntries(headers, arg.entries)
      [] arg.form = "object" -> ApplyEntries(headers, arg.entries)

\* ---- the emitter as the adapters use it, for the one context of the request
RequestCtx == CHOOSE c \in Ctxs : TRUE

CoreOf ==
    [requestId |-> ctxRequestId[RequestCtx], state |-> contextMap[RequestCtx],
     span |-> spans[RequestCtx], returned |-> returned[RequestCtx],
     genCount |-> genCount, out |-> loggerOut]

CoreAssign(k) ==
    /\ ctxRequestId' = [ctxRequestId EXCEPT ![RequestCtx] = k.requestId]
    /\ contextMap' = [contextMap EXCEPT ![RequestCtx] = k.state]
    /\ spans' = [spans EXCEPT ![RequestCtx] = k.span]
    /\ returned' = [returned EXCEPT ![RequestCtx] = k.returned]
    /\ genCount' = k.genCount
    /\ loggerOut' = k.out

\* xray.startRequest(normalizedRequest)
CoreStartRequest(k, req) ==
    LET r == StartRequestResult(req)
    IN [k EXCEPT !.requestId = r.requestId, !.state = Some(r.state), !.span = Some(r.span)]

\* setContextRequestId(ctx, requestId)
CoreSetContextRequestId(k, requestId) ==
    IF ~IsDefined(k.state) THEN k
    ELSE [k EXCEPT !.state = Some([Get(@) EXCEPT !.request.requestId = Some(requestId)]),
                   !.requestId = requestId]

\* xray.endRequest(ctx, res, err)
CoreEndRequest(k, res, err, threshold) ==
    Only({[k EXCEPT !.requestId = r.requestId, !.state = r.state, !.span = Some(r.span),
                    !.returned = Append(@, Get(r.log)),
                    !.genCount = IF r.generated THEN @ + 1 ELSE @,
                    !.out = r.out] :
          r \in {EndRequestResult(k.requestId, k.state, Get(k.span), res, err, 0,
                                  GenerateRequestId(k.genCount + 1), k.out, threshold)}})

\* the guarded hook calls that follow endRequest on a code path
HooksAfterEnd(a, k1, threshold, calls) ==
    Only({[a |-> h.a, k |-> [k1 EXCEPT !.out = h.out]] :
          h \in {RunHooks(a, k1.out, threshold, calls)}})

\* the identifier the adapter generated is bound to the context
CoreAfterEnsure(k, ensured) ==
    IF ensured.generated
    THEN CoreSetContextRequestId([k EXCEPT !.genCount = @ + 1], Get(ensured.value))
    ELSE k

\* ---- the state of the adapter for the request
AdNone ==
    [kind |-> "none", pc |-> "idle",
     opts |-> [requestId |-> Undefined, onRequest |-> "absent", onResponse |-> "absent",
               onError |-> "absent"],
     calls |-> [onRequest |-> 0, onResponse |-> 0, onError |-> 0],
     hookThrows |-> 0, hookEscaped |-> FALSE,
     handlerRan |-> FALSE, delivery |-> "none",
     finished |-> FALSE, capturedError |-> FALSE, onErrorCalled |-> FALSE,
     wroteHeader |-> FALSE, committed |-> FALSE, ended |-> FALSE,
     finishEmitted |-> FALSE, closeEmitted |-> FALSE,
     res |-> <<>>, snapshot |-> Undefined, handlerHeaders |-> Undefined, sent |-> Undefined,
     endCalls |-> 0, events |-> 0]

AdIdle == ad = AdNone

\* finished = true
MarkFinishedForgotten(a) == a

MarkFinished(a) == [a EXCEPT !.finished = TRUE]

HandlerError == Some([isError |-> TRUE, message |-> "boom", name |-> "TypeError"])

NoResponse(endTimeMs) ==
    [statusCode |-> Undefined, headers |-> Undefined, endTimeMs |-> endTimeMs]

\* finish() that does not look at onErrorCalled before it calls onError
NodeFinishOnErrorAgain(a, k, threshold, endTimeMs) ==
    IF a.finished THEN [a |-> a, k |-> k]
    ELSE LET a1 == MarkFinished(a)
             responseHeaders ==
                 HeaderValuesFromNodeHeaders(IF IsDefined(a1.snapshot) THEN Get(a1.snapshot)
                                             ELSE a1.res)
             statusCode == IF a1.capturedError /\ ~a1.wroteHeader THEN 500 ELSE 200
             callOnError == a1.capturedError /\ a1.opts.onError # "absent"
             a2 == [a1 EXCEPT !.endCalls = @ + 1, !.onErrorCalled = @ \/ callOnError]
         IN Only({HooksAfterEnd(a2, k1, threshold,
                                (IF callOnError THEN <<"onError">> ELSE <<>>)
                                    \o <<"onResponse">>) :
                  k1 \in {CoreEndRequest(k, [statusCode |-> Some(statusCode),
                                             headers |-> Some(responseHeaders),
                                             endTimeMs |-> endTimeMs],
                                         IF a1.capturedError THEN HandlerError
                                         ELSE Undefined,
                                         threshold)}})

\* finish() of wrapHttpHandler, the listener of 'finish' and of 'close'
NodeFinish(a, k, threshold, endTimeMs) ==
    IF a.finished THEN [a |-> a, k |-> k]
    ELSE LET a1 == MarkFinished(a)
             responseHeaders ==
                 HeaderValuesFromNodeHeaders(IF IsDefined(a1.snapshot) THEN Get(a1.snapshot)
                                             ELSE a1.res)
             statusCode == IF a1.capturedError /\ ~a1.wroteHeader THEN 500 ELSE 200
             callOnError == a1.capturedError /\ a1.opts.onError # "absent" /\ ~a1.onErrorCalled
             a2 == [a1 EXCEPT !.endCalls = @ + 1, !.onErrorCalled = @ \/ callOnError]
         IN Only({HooksAfterEnd(a2, k1, threshold,
                                (IF callOnError THEN <<"onError">> ELSE <<>>)
                                    \o <<"onResponse">>) :
                  k1 \in {CoreEndRequest(k, [statusCode |-> Some(statusCode),
                                             headers |-> Some(responseHeaders),
                                             endTimeMs |-> endTimeMs],
                                         IF a1.capturedError THEN HandlerError
                                         ELSE Undefined,
                                         threshold)}})

\* ResponseRecorder.recordHeader(res, statusCode), its onHeader callback included
RecordHeader(a, k) ==
    IF a.wroteHeader THEN [a |-> a, k |-> k]
    ELSE LET e == EnsureResponseRequestId(a.res, k.requestId,
                                          GenerateRequestId(k.genCount + 1))
         IN [a |-> [a EXCEPT !.handlerHeaders = Some(a.res), !.res = e.headers,
                             !.wroteHeader = TRUE, !.snapshot = Some(e.headers)],
             k |-> CoreAfterEnsure(k, e)]

\* finalizeResponse(...) of the fetch adapter followed by the guarded onResponse
FinalizeAndRespond(a, k, threshold, endTimeMs) ==
    Only({HooksAfterEnd([a EXCEPT !.endCalls = @ + 1], k1, threshold, <<"onResponse">>) :
          k1 \in {CoreEndRequest(k, [statusCode |-> Some(200),
                                     headers |-> Some(HeaderValuesFromFetchHeaders(a.res)),
                                     endTimeMs |-> endTimeMs],
                                 Undefined, threshold)}})

\* finalize() of wrapFetch, called by the wrapped body stream
FetchFinalize(a, k, threshold, endTimeMs) ==
    IF a.finished THEN [a |-> a, k |-> k]
    ELSE FinalizeAndRespond(MarkFinished(a), k, threshold, endTimeMs)

\* the catch block of "await handler(req)" in wrapFetch and wrapFetchPreserve, and
\* the failure branch of the effect middleware
HandlerFailed(a, k, threshold, endTimeMs) ==
    Only({HooksAfterEnd([a EXCEPT !.endCalls = @ + 1, !.capturedError = TRUE], k1,
                        threshold, <<"onError", "onResponse">>) :
          k1 \in {CoreEndRequest(k, NoResponse(endTimeMs), HandlerError, threshold)}})

\* what the wrapper hands its caller at the end of a code path
Delivered(a, what) ==
    [a EXCEPT !.pc = "done", !.delivery = IF a.hookEscaped THEN "hookError" ELSE what]

(***************************************************************************)
(* SpecRequestId: how endRequest resolves the request identifier, for a    *)
(* started context and for a foreign one, each finished once.              *)
(***************************************************************************)
RidInit ==
    /\ BufIdle
    /\ AdIdle
    /\ ExtIdle
    /\ \E foreignId \in {EmptyString, <<" ">>, <<"A">>} :
          ctxRequestId = [c \in AllCtxs |-> IF c = ForeignCtx THEN foreignId ELSE EmptyString]
    /\ contextMap = [c \in AllCtxs |-> Undefined]
    /\ spans = [c \in AllCtxs |-> Undefined]
    /\ returned = [c \in AllCtxs |-> <<>>]
    /\ genCount = 0
    /\ loggerOut = <<>>
    /\ logLevel = "warn"
    /\ lastOp = NoOp
    /\ opCount = 0

RidStart ==
    \E c \in Ctxs, requestId \in {Undefined} \cup {Some(s) : s \in IdStrings} :
        StartRequest(c, Request(requestId))

RidSetContextRequestId ==
    \E c \in Ctxs, requestId \in IdStrings :
        /\ returned[c] = <<>>
        /\ lastOp.name = "startRequest"
        /\ SetContextRequestId(c, requestId)

RidEnd ==
    \E c \in Ctxs, headers \in HeadersInputs :
        /\ returned[c] = <<>>
        /\ EndRequest(c, Response(headers, EndTimeMs), Undefined, 0)

RidEndForeign ==
    \E headers \in {Undefined, Some(<<Header(HeaderCanonical, StringValue(<<"A", "A">>))>>)} :
        /\ returned[ForeignCtx] = <<>>
        /\ EndRequest(ForeignCtx, Response(headers, EndTimeMs), Undefined, 0)

RidNext ==
    \/ (RidStart /\ UNCHANGED <<lbVars, ad, extVars>>)
    \/ (RidSetContextRequestId /\ UNCHANGED <<lbVars, ad, extVars>>)
    \/ (RidEnd /\ UNCHANGED <<lbVars, ad, extVars>>)
    \/ (RidEndForeign /\ UNCHANGED <<lbVars, ad, extVars>>)

SpecRequestId == RidInit /\ [][RidNext]_vars


\* ---- properties of the identifier resolution

\* the identifiers set explicitly for context c: on the request or on the context
ExplicitIds(c) ==
    LET onContext == {ctxRequestId[c]}
        onRequest == IF IsDefined(contextMap[c]) /\ IsDefined(Get(contextMap[c]).request.requestId)
                     THEN {Get(Get(contextMap[c]).request.requestId)} ELSE {}
    IN {Trim(x) : x \in onContext \cup onRequest} \ {EmptyString}

\* the value the response carries under the configured header name, whatever the
\* letter case of the name: the first non-blank one
HeaderIdCarried(headers) ==
    IF ~IsDefined(headers) THEN Undefined
    ELSE LET h == Get(headers)
             first(i) == IF h[i].value.entries = <<>> THEN EmptyString
                         ELSE Trim(h[i].value.entries[1])
             carrying == {i \in 1..Len(h) :
                             /\ ToLowerCase(h[i].name) = ToLowerCase(ConfigRequestIdHeader)
                             /\ first(i) # EmptyString}
         IN IF carrying = {} THEN Undefined
            ELSE Some(first(CHOOSE i \in carrying : \A j \in carrying : i <= j))

\* C1: endRequest resolves the identifier as explicit identifier, else response
\* header, else a freshly generated non-empty identifier, and both the returned
\* log and ctx.requestId carry the resolved value.
C1_RequestIdPrecedence ==
    [][lastOp'.name = "endRequest" =>
        LET c == lastOp'.ctx
            log == returned'[c][Len(returned'[c])]
            carried == HeaderIdCarried(lastOp'.headers)
        IN /\ lastOp'.outcome = "returned"
           /\ Len(returned'[c]) = Len(returned[c]) + 1
           /\ ctxRequestId'[c] = log.requestId
           /\ IF ExplicitIds(c) # {}
              THEN log.requestId \in ExplicitIds(c) /\ genCount' = genCount
              ELSE IF IsDefined(carried)
              THEN log.requestId = Get(carried) /\ genCount' = genCount
              ELSE /\ log.requestId # EmptyString
                   /\ genCount' = genCount + 1
                   /\ log.requestId = GenerateRequestId(genCount')
                   /\ \A d \in AllCtxs : \A i \in 1..Len(returned[d]) :
                          returned[d][i].requestId # log.requestId
    ]_vars

\* an explicit identifier "A" won over a response header carrying "AA"
C1_Witness ==
    /\ lastOp.name = "endRequest"
    /\ lastOp.ctx = 1
    /\ returned[1] # <<>>
    /\ returned[1][1].requestId = <<"A">>
    /\ ctxRequestId[1] = <<"A">>
    /\ HeaderIdCarried(lastOp.headers) = Some(<<"A", "A">>)


(***************************************************************************)
(* Spec: the lifecycle of a request context.  startRequest, the context's  *)
(* operations in any order, endRequest any number of times (a span call of *)
(* its try block may throw), and endRequest on a foreign context.          *)
(***************************************************************************)
MaxOps == 2

\* the calls made on context c besides startRequest and the first endRequest: the
\* mutator calls and the repeated endRequest calls
CallsOn(c) == opCount + Max(Len(returned[c]) - 1, 0)

LcHeaders == {Undefined, Some(<<Header(HeaderCanonical, StringValue(<<"A", "A">>))>>)}
LcErrors == {Undefined,
             Some([isError |-> TRUE, message |-> "boom", name |-> "TypeError"])}

Init ==
    /\ BufIdle
    /\ AdIdle
    /\ ExtIdle
    /\ ctxRequestId = [c \in AllCtxs |-> EmptyString]
    /\ contextMap = [c \in AllCtxs |-> Undefined]
    /\ spans = [c \in AllCtxs |-> Undefined]
    /\ returned = [c \in AllCtxs |-> <<>>]
    /\ genCount = 0
    /\ loggerOut = <<>>
    /\ logLevel = "warn"
    /\ lastOp = NoOp
    /\ opCount = 0

LcStart ==
    \E c \in Ctxs, requestId \in {Undefined, Some(<<"A">>)} :
        StartRequest(c, Request(requestId))

LcSetUserId ==
    \E c \in Ctxs, id \in {"", "u1"} : CallsOn(c) < MaxOps /\ SetUserId(c, id)

LcSetSessionId ==
    \E c \in Ctxs : CallsOn(c) < MaxOps /\ SetSessionId(c, "s1")

LcSetAttribute ==
    \E c \in Ctxs : CallsOn(c) < MaxOps /\ SetAttribute(c, "plan", "pro")

LcAddEvent ==
    \E c \in Ctxs : CallsOn(c) < MaxOps /\ AddEvent(c, "cache.miss")

LcSetError ==
    \E c \in Ctxs : CallsOn(c) < MaxOps /\ SetError(c, [isError |-> FALSE, message |-> "rejected", name |-> ""])

\* the first endRequest of a context: any one of its span calls may throw
LcEnd ==
    \E c \in Ctxs, err \in LcErrors :
        /\ returned[c] = <<>>
        /\ \E failAt \in 0..Len(SpanOpsAtEnd(c, Response(Undefined, EndTimeMs), err)) :
              EndRequest(c, Response(Undefined, EndTimeMs), err, failAt)

\* endRequest called again on a context that was finished
LcEndAgain ==
    \E c \in Ctxs, failAt \in 0..1 :
        /\ returned[c] # <<>>
        /\ CallsOn(c) < MaxOps
        /\ EndRequest(c, Response(Undefined, EndTimeMs), Undefined, failAt)

\* endRequest on a context startRequest never made; the two contexts share
\* nothing but the identifier generator, so these calls are taken first
LcEndForeign ==
    \E headers \in LcHeaders :
        /\ \A c \in Ctxs : ~Started(c)
        /\ returned[ForeignCtx] = <<>>
        /\ EndRequest(ForeignCtx, Response(headers, EndTimeMs), Undefined, 0)

Next ==
    \/ (LcStart /\ UNCHANGED <<lbVars, ad, extVars>>)
    \/ (LcSetUserId /\ UNCHANGED <<lbVars, ad, extVars>>)
    \/ (LcSetSessionId /\ UNCHANGED <<lbVars, ad, extVars>>)
    \/ (LcSetAttribute /\ UNCHANGED <<lbVars, ad, extVars>>)
    \/ (LcAddEvent /\ UNCHANGED <<lbVars, ad, extVars>>)
    \/ (LcSetError /\ UNCHANGED <<lbVars, ad, extVars>>)
    \/ (LcEnd /\ UNCHANGED <<lbVars, ad, extVars>>)
    \/ (LcEndAgain /\ UNCHANGED <<lbVars, ad, extVars>>)
    \/ (LcEndForeign /\ UNCHANGED <<lbVars, ad, extVars>>)

Spec == Init /\ [][Next]_vars


\* ---- properties of the lifecycle

ContextMutators == {"setUserId", "setSessionId", "setAttribute", "addEvent", "setError"}

\* C5: once endRequest has returned for a context, setUserId, setSessionId,
\* setAttribute, addEvent and setError on it do not throw and change neither the
\* per-request state, nor the span, nor the logs already returned.
C5_MutatorsAfterEndAreNoOps ==
    [][(lastOp'.name \in ContextMutators /\ returned[lastOp'.ctx] # <<>>) =>
        /\ lastOp'.outcome = "returned"
        /\ contextMap'[lastOp'.ctx] = contextMap[lastOp'.ctx]
        /\ spans'[lastOp'.ctx] = spans[lastOp'.ctx]
        /\ returned' = returned
    ]_vars

\* C6: endRequest on a context that was already finished once, or that startRequest
\* never made, does not raise and returns the minimal log: method 'UNKNOWN', empty
\* url, durationMs 0 and a non-empty requestId.
C6_EndWithoutStateIsMinimal ==
    [][(/\ lastOp'.name = "endRequest"
        /\ (lastOp'.ctx = ForeignCtx \/ returned[lastOp'.ctx] # <<>>)) =>
        LET c == lastOp'.ctx
        IN /\ lastOp'.outcome = "returned"
           /\ Len(returned'[c]) = Len(returned[c]) + 1
           /\ LET log == returned'[c][Len(returned'[c])]
              IN /\ log.method = "UNKNOWN"
                 /\ log.url = EmptyUrl
                 /\ log.durationMs = 0
                 /\ log.requestId # EmptyString
    ]_vars

\* C8: when a span call of endRequest throws, the failure is caught and logged at
\* warn, and endRequest returns the log it returns when no span call throws.
C8_SpanFailureStillReturnsLog ==
    [][(lastOp'.name = "endRequest" /\ lastOp'.spanFailed) =>
        LET c == lastOp'.ctx
            unfailing == EndRequestResult(ctxRequestId[c], GetContextState(c), Get(spans[c]),
                                          Response(lastOp'.headers, EndTimeMs), lastOp'.err, 0,
                                          GenerateRequestId(genCount + 1), <<>>, logLevel)
        IN /\ lastOp'.outcome = "returned"
           /\ returned'[c] = Append(returned[c], Get(unfailing.log))
           /\ ctxRequestId'[c] = returned'[c][Len(returned'[c])].requestId
           /\ Len(loggerOut') = Len(loggerOut) + 1
           /\ loggerOut'[Len(loggerOut')].level = "warn"
    ]_vars

\* a span call threw in the middle of endRequest's try block, the complete log of a
\* request that failed was returned and the warning reached the logger
C8_Witness ==
    /\ lastOp.name = "endRequest"
    /\ lastOp.spanFailed
    /\ lastOp.ctx \in Ctxs
    /\ IsDefined(lastOp.err)
    /\ Len(returned[lastOp.ctx]) = 1
    /\ returned[lastOp.ctx][1].method = "GET"
    /\ returned[lastOp.ctx][1].url.query[1][2] = ConfigRedactionReplacement
    /\ IsDefined(returned[lastOp.ctx][1].error)
    /\ IsDefined(returned[lastOp.ctx][1].userId)
    /\ Get(spans[lastOp.ctx]).endCalls = 0
    /\ Get(spans[lastOp.ctx]).attributes # {}
    /\ loggerOut # <<>>

(***************************************************************************)
(* SpecAdapter: one request through one of the adapters.  The options, the *)
(* behaviour of the hooks, what the handler does with the response and the *)
(* completion events of the platform are chosen freely.                    *)
(***************************************************************************)
MaxEvents == 2

AdRequestIds == {Undefined, Some(<<"A">>), Some(<<" ">>)}
HandlerIdValues == {StringValue(<<"B">>), StringValue(<<" ">>),
                    ArrayValue(<< <<"B">>, <<"C">> >>)}
NodeHandlerHeaders ==
    {Header(HeaderCanonical, v) : v \in HandlerIdValues}
    \cup {Header(HeaderOther, StringValue(<<"x">>))}
WriteHeadArg(form, items, entries) == [form |-> form, items |-> items, entries |-> entries]
WriteHeadArgs ==
    {WriteHeadArg("none", <<>>, <<>>),
     WriteHeadArg("object", <<>>, <<Header(HeaderCanonical, StringValue(<<"B">>))>>),
     WriteHeadArg("object", <<>>, <<Header(ConfigRequestIdHeader, StringValue(EmptyString))>>),
     WriteHeadArg("flat", <<HeaderCanonical, <<"B">>>>, <<>>),
     WriteHeadArg("pairs", <<>>, <<Header(HeaderCanonical, StringValue(<<"B">>))>>)}
FetchInits ==
    {<<>>,
     <<Header(HeaderCanonical, StringValue(<<"B">>))>>,
     <<Header(ConfigRequestIdHeader, StringValue(<<" ", "B", " ">>))>>,
     <<Header(HeaderCanonical, StringValue(<<" ">>))>>,
     <<Header(HeaderOther, StringValue(<<"x">>))>>}
EffectHeaders ==
    {<<>>,
     <<Header(ConfigRequestIdHeader, StringValue(<<"B">>))>>,
     <<Header(HeaderOther, StringValue(<<"x">>))>>}

AdUnchanged ==
    UNCHANGED <<lb, lbWritten, lbWrites, lbThrown, logLevel, lastOp, opCount, extVars>>
AdInit ==
    /\ BufIdle
    /\ ctxRequestId = [c \in AllCtxs |-> EmptyString]
    /\ contextMap = [c \in AllCtxs |-> Undefined]
    /\ spans = [c \in AllCtxs |-> Undefined]
    /\ returned = [c \in AllCtxs |-> <<>>]
    /\ genCount = 0
    /\ loggerOut = <<>>
    /\ logLevel \in {"warn", "error"}
    /\ lastOp = NoOp
    /\ opCount = 0
    /\ AdIdle
    /\ ExtIdle

\* the wrapper is called with a request: startRequest, the options applied to the
\* context, the onRequest hook, and the handler is called
AdRequest ==
    \E kind \in AdapterKinds, requestId \in AdRequestIds,
       onRequest \in HookKinds, onResponse \in HookKinds, onError \in HookKinds :
        /\ ad.pc = "idle"
        /\ LET opts == [requestId |-> requestId, onRequest |-> onRequest,
                        onResponse |-> onResponse, onError |-> onError]
               k0 == CoreStartRequest(CoreOf, Request(requestId))
               k1 == IF IsDefined(requestId) /\ Get(requestId) # EmptyString
                     THEN CoreSetContextRequestId(k0, Get(requestId)) ELSE k0
               h == RunHooks([AdNone EXCEPT !.kind = kind, !.opts = opts], k1.out, logLevel,
                             <<"onRequest">>)
           IN /\ ad' = IF h.a.hookEscaped THEN Delivered(h.a, "none")
                       ELSE [h.a EXCEPT !.pc = "handler", !.handlerRan = TRUE]
              /\ CoreAssign([k1 EXCEPT !.out = h.out])
        /\ AdUnchanged

NodeOpen == ad.kind = "node" /\ ad.pc = "handler" /\ ~ad.closeEmitted /\ ~ad.ended

\* the handler calls res.setHeader before the headers are committed
NodeSetHeader ==
    \E h \in NodeHandlerHeaders :
        /\ NodeOpen /\ ~ad.committed /\ ad.res = <<>>
        /\ ad' = [ad EXCEPT !.res = SetHeader(@, h.name, h.value)]
        /\ UNCHANGED <<ctxRequestId, contextMap, spans, returned, genCount, loggerOut>>
        /\ AdUnchanged

\* res.writeHead(statusCode, headers) as wrapped by the recorder
NodeWriteHead ==
    \E arg \in WriteHeadArgs :
        /\ NodeOpen /\ ~ad.committed
        /\ LET a1 == IF ~ad.wroteHeader
                     THEN [ad EXCEPT !.res = ApplyWriteHeadHeaders(@, arg)] ELSE ad
               r == RecordHeader(a1, CoreOf)
               wire == ApplyWriteHeadHeaders(r.a.res, arg)
           IN /\ ad' = [r.a EXCEPT !.res = wire, !.committed = TRUE, !.sent = Some(wire)]
              /\ CoreAssign(r.k)
        /\ AdUnchanged

\* res.flushHeaders() as wrapped by the recorder
NodeFlushHeaders ==
    /\ NodeOpen /\ ~ad.committed
    /\ LET r == RecordHeader(ad, CoreOf)
       IN /\ ad' = [r.a EXCEPT !.committed = TRUE, !.sent = Some(r.a.res)]
          /\ CoreAssign(r.k)
    /\ AdUnchanged

\* res.end() as wrapped by the recorder
NodeEnd ==
    /\ NodeOpen
    /\ LET r == RecordHeader(ad, CoreOf)
       IN /\ ad' = [r.a EXCEPT !.committed = TRUE, !.ended = TRUE,
                               !.sent = IF ad.committed THEN ad.sent ELSE Some(r.a.res)]
          /\ CoreAssign(r.k)
    /\ AdUnchanged

\* the handler throws (the wrapper rethrows) or the promise it returned rejects
NodeHandlerFails ==
    \E sync \in BOOLEAN :
        /\ ad.kind = "node" /\ ad.pc = "handler" /\ ~ad.capturedError
        /\ sync => (ad.delivery = "none" /\ ~ad.finishEmitted /\ ~ad.closeEmitted)
        /\ LET callOnError == ad.opts.onError # "absent" /\ ~ad.onErrorCalled
               a1 == [ad EXCEPT !.capturedError = TRUE, !.onErrorCalled = @ \/ callOnError]
               h == RunHooks(a1, loggerOut, logLevel,
                             IF callOnError THEN <<"onError">> ELSE <<>>)
           IN /\ ad' = [h.a EXCEPT !.delivery = IF h.a.hookEscaped THEN "hookError"
                                                ELSE IF sync THEN "handlerError" ELSE @]
              /\ loggerOut' = h.out
        /\ UNCHANGED <<ctxRequestId, contextMap, spans, returned, genCount>>
        /\ AdUnchanged

\* the response emits 'finish'
NodeFinishEvent ==
    /\ ad.kind = "node" /\ ad.ended /\ ~ad.finishEmitted
    /\ \E r \in {NodeFinish(ad, CoreOf, logLevel, EndTimeMs)} :
          /\ ad' = [r.a EXCEPT !.finishEmitted = TRUE, !.events = @ + 1]
          /\ CoreAssign(r.k)
    /\ AdUnchanged

\* the response emits 'close'
NodeCloseEvent ==
    /\ ad.kind = "node" /\ ad.pc = "handler" /\ ~ad.closeEmitted
    /\ \E r \in {NodeFinish(ad, CoreOf, logLevel, EndTimeMs)} :
          /\ ad' = [r.a EXCEPT !.closeEmitted = TRUE, !.events = @ + 1]
          /\ CoreAssign(r.k)
    /\ AdUnchanged

\* "await handler(req)" throws in wrapFetch or wrapFetchPreserve
FetchHandlerThrows ==
    /\ ad.kind \in {"fetch", "preserve"} /\ ad.pc = "handler"
    /\ \E r \in {HandlerFailed(ad, CoreOf, logLevel, EndTimeMs)} :
          ad' = Delivered(r.a, "handlerError") /\ CoreAssign(r.k)
    /\ AdUnchanged

\* the handler returns something that is no Response
FetchHandlerReturnsOther ==
    /\ ad.kind \in {"fetch", "preserve"} /\ ad.pc = "handler"
    /\ \E k1 \in {CoreEndRequest(CoreOf, NoResponse(EndTimeMs), Undefined, logLevel)} :
       \E r \in {HooksAfterEnd([ad EXCEPT !.endCalls = @ + 1], k1, logLevel,
                                <<"onResponse">>)} :
          ad' = Delivered(r.a, "value") /\ CoreAssign(r.k)
    /\ AdUnchanged

\* the handler of wrapFetch returns a Response, with a body to stream or without
FetchHandlerReturns ==
    \E init \in FetchInits, body \in BOOLEAN :
        /\ ad.kind = "fetch" /\ ad.pc = "handler"
        /\ LET hdrs == NewHeaders(init)
               e == EnsureResponseRequestIdHeaders(hdrs, CoreOf.requestId,
                                                   GenerateRequestId(genCount + 1))
               k1 == CoreAfterEnsure(CoreOf, e)
               a1 == [ad EXCEPT !.handlerHeaders = Some(hdrs), !.res = e.headers,
                                !.sent = Some(e.headers)]
           IN IF body
              THEN /\ ad' = [a1 EXCEPT !.pc = "streaming", !.delivery = "response"]
                   /\ CoreAssign(k1)
              ELSE \E r \in {FinalizeAndRespond(a1, k1, logLevel, EndTimeMs)} :
                       /\ ad' = Delivered(r.a, "response")
                       /\ CoreAssign(r.k)
        /\ AdUnchanged

\* the wrapped body stream ends, fails or is cancelled
FetchStreamEvent ==
    \E ev \in {"end", "error", "cancel"} :
        /\ ad.kind = "fetch" /\ ad.pc = "streaming"
        /\ ad.events < MaxEvents
        /\ \E r1 \in {FetchFinalize(ad, CoreOf, logLevel, EndTimeMs)} :
           \E r2 \in {IF ev = "error" THEN FetchFinalize(r1.a, r1.k, logLevel, EndTimeMs)
                       ELSE r1} :
              /\ ad' = [r2.a EXCEPT !.events = @ + 1]
              /\ CoreAssign(r2.k)
        /\ AdUnchanged

\* the handler of wrapFetchPreserve returns a Response whose headers can be set
\* or cannot
PreserveHandlerReturns ==
    \E init \in FetchInits, immutable \in BOOLEAN :
        /\ ad.kind = "preserve" /\ ad.pc = "handler"
        /\ LET hdrs == NewHeaders(init)
               e == EnsureResponseRequestIdHeaders(hdrs, CoreOf.requestId,
                                                   GenerateRequestId(genCount + 1))
               sent == IF ~e.set THEN hdrs
                       ELSE IF immutable THEN e.headers
                       ELSE FetchHeadersSet(hdrs, CanonicalHeaderName(ConfigRequestIdHeader),
                                            Get(e.value))
           IN /\ ad' = [ad EXCEPT !.handlerHeaders = Some(hdrs), !.res = e.headers,
                                  !.sent = Some(sent), !.pc = "capturing",
                                  !.delivery = "response"]
              /\ CoreAssign(CoreAfterEnsure(CoreOf, e))
        /\ AdUnchanged

\* both captures of wrapFetchPreserve resolved
PreserveCaptured ==
    /\ ad.kind = "preserve" /\ ad.pc = "capturing"
    /\ \E r \in {FinalizeAndRespond(ad, CoreOf, logLevel, EndTimeMs)} :
          ad' = [r.a EXCEPT !.pc = "done", !.events = @ + 1] /\ CoreAssign(r.k)
    /\ AdUnchanged

\* a capture of wrapFetchPreserve rejected
PreserveCaptureFails ==
    /\ ad.kind = "preserve" /\ ad.pc = "capturing"
    /\ ad' = [ad EXCEPT !.pc = "done", !.events = @ + 1]
    /\ loggerOut' = LogWithLevel(loggerOut, "warn", logLevel, "xray: response capture failed")
    /\ UNCHANGED <<ctxRequestId, contextMap, spans, returned, genCount>>
    /\ AdUnchanged

\* the wrapped HttpApp succeeds with a response
EffectHandlerSucceeds ==
    \E headers \in EffectHeaders :
        /\ ad.kind = "effect" /\ ad.pc = "handler"
        /\ \E k1 \in {CoreEndRequest(CoreOf,
                                      [statusCode |-> Some(200),
                                       headers |-> Some(EffectHeadersToRecord(headers)),
                                       endTimeMs |-> EndTimeMs],
                                      Undefined, logLevel)} :
           \E r \in {HooksAfterEnd([ad EXCEPT !.endCalls = @ + 1,
                                              !.handlerHeaders = Some(headers),
                                              !.res = headers, !.sent = Some(headers)],
                                    k1, logLevel, <<"onResponse">>)} :
              ad' = Delivered(r.a, "response") /\ CoreAssign(r.k)
        /\ AdUnchanged

\* the wrapped HttpApp fails
EffectHandlerFails ==
    /\ ad.kind = "effect" /\ ad.pc = "handler"
    /\ \E r \in {HandlerFailed(ad, CoreOf, logLevel, EndTimeMs)} :
          ad' = Delivered(r.a, "handlerError") /\ CoreAssign(r.k)
    /\ AdUnchanged

AdNext ==
    \/ AdRequest
    \/ NodeSetHeader
    \/ NodeWriteHead
    \/ NodeFlushHeaders
    \/ NodeEnd
    \/ NodeHandlerFails
    \/ NodeFinishEvent
    \/ NodeCloseEvent
    \/ FetchHandlerThrows
    \/ FetchHandlerReturnsOther
    \/ FetchHandlerReturns
    \/ FetchStreamEvent
    \/ PreserveHandlerReturns
    \/ PreserveCaptured
    \/ PreserveCaptureFails
    \/ EffectHandlerSucceeds
    \/ EffectHandlerFails

SpecAdapter == AdInit /\ [][AdNext]_vars


\* ---- properties of the adapters

\* C4: for a request handled by wrapHttpHandler, wrapFetch or wrapFetchPreserve,
\* endRequest is called at most once and onResponse is invoked at most once,
\* whatever completion events occur and in whatever order.
C4_FinalizedAtMostOnce ==
    ad.kind \in {"node", "fetch", "preserve"} =>
        /\ ad.endCalls <= 1
        /\ Len(returned[RequestCtx]) <= 1
        /\ ad.calls.onResponse <= 1

\* the response emitted both 'finish' and 'close' and the request was finalized once
C4_Witness ==
    /\ ad.kind = "node"
    /\ ad.finishEmitted /\ ad.closeEmitted
    /\ ad.events = 2
    /\ ad.endCalls = 1
    /\ ad.calls.onResponse = 1

\* the warnings about hooks that reached the logger
HookWarnings ==
    SelectSeq(loggerOut,
              LAMBDA m : /\ m.level = "warn"
                         /\ m.message \in {HookMessage(w) :
                                             w \in {"onRequest", "onResponse", "onError"}})

\* C7: an exception thrown by onRequest, onResponse or onError is caught, logged at
\* warn and never leaves the adapter; the handler still runs, the request is still
\* finalized (onResponse still follows a failing onError) and the wrapper still
\* hands its caller the response, or the handler's own error.
C7_HookFailuresAreContained ==
    /\ ~ad.hookEscaped
    /\ ad.delivery # "hookError"
    /\ Len(HookWarnings) = IF LogLevelOrder(logLevel) <= LogLevelOrder("warn")
                           THEN ad.hookThrows ELSE 0
    /\ ad.kind # "none" => ad.handlerRan
    /\ (ad.endCalls >= 1 /\ ad.opts.onResponse # "absent") => ad.calls.onResponse >= 1
    /\ ad.pc = "done" => ad.delivery \in {"response", "value", "handlerError"}

\* the three hooks threw during one request whose handler failed: three warnings,
\* the request finalized, the handler's error handed to the caller
C7_Witness ==
    /\ ad.hookThrows = 3
    /\ ad.handlerRan
    /\ ad.endCalls = 1
    /\ ad.calls.onError = 1 /\ ad.calls.onResponse = 1
    /\ Len(HookWarnings) = 3
    /\ ad.delivery = "handlerError"

\* the explicit request id of the options, when it is not blank
ExplicitOption ==
    IF IsDefined(ad.opts.requestId) /\ Trim(Get(ad.opts.requestId)) # EmptyString
    THEN Some(Trim(Get(ad.opts.requestId))) ELSE Undefined

IsGeneratedId(id) ==
    /\ Len(id) > Len(RequestIdPrefix)
    /\ SubSeq(id, 1, Len(RequestIdPrefix)) = RequestIdPrefix

\* C9: when the response headers are committed, the adapter (node, fetch, effect)
\* sets the request-id header if and only if the handler left it missing (absent
\* or blank), to the explicit request id when one was given and to a generated
\* identifier otherwise; a value the handler set is never overwritten.
C9_RequestIdHeaderSetIffMissing ==
    IsDefined(ad.sent) =>
        LET handler == HeaderIdCarried(ad.handlerHeaders)
            sent == HeaderIdCarried(ad.sent)
        IN IF IsDefined(handler) THEN ad.sent = ad.handlerHeaders
           ELSE IF IsDefined(ExplicitOption) THEN sent = ExplicitOption
           ELSE IsDefined(sent) /\ IsGeneratedId(Get(sent))

\* C10: with no explicit request id, the requestId of the emitted log and
\* ctx.requestId equal the value of the request-id header of the response that was
\* sent, whether the handler set it or the adapter injected it.
C10_LogIdIsTheHeaderSent ==
    (~IsDefined(ExplicitOption) /\ IsDefined(ad.sent) /\ returned[RequestCtx] # <<>>) =>
        /\ returned[RequestCtx][1].requestId = ctxRequestId[RequestCtx]
        /\ HeaderIdCarried(ad.sent) = Some(returned[RequestCtx][1].requestId)

(***************************************************************************)
(* SpecBuffer: a LimitedBuffer and the writes made to it                   *)
(***************************************************************************)
\* ---- inputs of the buffer specification
MaxWrites == 3
LimitInputs ==
    {[finite |-> TRUE, value |-> v] : v \in {-1, 0, 1, 10, 32768, 40000, 70000}}
    \cup {[finite |-> FALSE, value |-> 0]}
Chunks ==
    {RZeros(0)} \cup {<< <<v, n>> >> : v \in {1, 2}, n \in {1, 6, 9, 32768, 40000}}

BufInit ==
    /\ CoreIdle
    /\ AdIdle
    /\ ExtIdle
    /\ \E limit \in LimitInputs : lb = LimitedBufferNew(limit)
    /\ lbWritten = <<>>
    /\ lbWrites = 0
    /\ lbThrown = FALSE

BufWrite ==
    /\ lbWrites < MaxWrites
    /\ ~lbThrown
    /\ \E chunk \in Chunks :
          LET r == LBWrite(lb, chunk)
          IN /\ lb' = r.b
             /\ lbThrown' = ~r.ok
             /\ lbWritten' = RCat(lbWritten, chunk)
    /\ lbWrites' = lbWrites + 1
    /\ UNCHANGED <<coreVars, ad, extVars>>

BufNext == BufWrite

SpecBuffer == BufInit /\ [][BufNext]_vars

\* ---- properties of the buffer

\* C2: after any sequence of writes whose lengths sum to T, bytes() is the first
\* min(L, T) bytes of the chunks in write order, capturedBytes() = min(L, T),
\* totalBytes() = T, and truncated() holds exactly when T > L.
C2_BufferHoldsPrefix ==
    LET T == RLen(lbWritten)
        L == lb.limit
    IN /\ ~lbThrown
       /\ LBBytes(lb) = RTake(lbWritten, Min(L, T))
       /\ LBCapturedBytes(lb) = Min(L, T)
       /\ LBTotalBytes(lb) = T
       /\ LBTruncated(lb) <=> (T > L)

\* a second write crossed a positive limit: only its fitting prefix was copied
C2_Witness ==
    /\ lbWrites >= 2
    /\ lb.limit = 10
    /\ LBCapturedBytes(lb) = 10
    /\ LBTotalBytes(lb) = 12
    /\ LBTruncated(lb)

\* C3: the storage never exceeds the limit, and a write leaves every byte that
\* was already captured as it was.
C3_CapacityWithinLimit ==
    /\ [](RLen(lb.buffer) <= lb.limit)
    /\ [][RTake(LBBytes(lb'), lb.length) = LBBytes(lb)]_vars

\* the storage has grown past its initial size and holds bytes beyond it
C3_Witness ==
    /\ RLen(lb.buffer) > InitialCapMax
    /\ lb.length > InitialCapMax
    /\ lbWrites >= 2

(***************************************************************************)
(* SpecCapture: body capture of wrapFetch and wrapFetchPreserve.  One      *)
(* request is followed from the return of the handler; the body streams    *)
(* deliver their chunks, end, fail or are cancelled.                       *)
(***************************************************************************)
MaxChunks == 2

\* byte 1 stands for a byte of valid UTF-8 text, byte 2 for one that is not
IsValidUtf8(bytes) == \A i \in 1..Len(bytes) : bytes[i][1] = 1

\* makeCapturedBody(bytes, totalBytes, truncated, mode)
MakeCapturedBody(bytes, totalBytes, truncated, mode) ==
    IF mode = "base64" \/ ~IsValidUtf8(bytes)
    THEN Some([bytes |-> totalBytes, encoding |-> "base64", truncated |-> truncated,
               value |-> <<"base64", bytes>>])
    ELSE Some([bytes |-> totalBytes, encoding |-> "utf8", truncated |-> truncated,
               value |-> <<"utf8", bytes>>])

\* the body a LimitedBuffer gives to the log; null gives none
BodyOfCapture(buf, mode) ==
    IF ~IsDefined(buf) THEN Undefined
    ELSE MakeCapturedBody(LBBytes(Get(buf)), LBTotalBytes(Get(buf)), LBTruncated(Get(buf)),
                          IF mode = "text" THEN "text" ELSE "base64")

\* one body stream: the chunks still to come, how it ends after them, what was
\* read from it so far, and the capture of the reader ("state": pending, done,
\* failed; a capture that was not started is done with no buffer)
Stream(chunks, ending) ==
    [chunks |-> chunks, ending |-> ending, seen |-> <<>>, buf |-> Undefined,
     state |-> "done"]

\* captureRequestClone / captureResponseClone: null when the limit is not positive
\* or there is no body, else a buffer that readStreamToBuffer fills
CaptureClone(stream, hasBody, limit) ==
    IF limit <= 0 \/ ~hasBody THEN stream
    ELSE [stream EXCEPT !.buf = Some(LimitedBufferNew([finite |-> TRUE, value |-> limit])),
                        !.state = "pending"]

\* one reader.read() and what the loop does with it: a chunk is written to the
\* buffer, the end resolves the capture, a failure rejects it
ReadStep(stream) ==
    IF stream.chunks # <<>>
    THEN [stream EXCEPT !.chunks = Tail(@),
                        !.seen = RCat(@, Head(stream.chunks)),
                        !.buf = Some(LBWrite(Get(@), Head(stream.chunks)).b)]
    ELSE [stream EXCEPT !.state = IF stream.ending = "error" THEN "failed" ELSE "done"]

\* finalizeResponse(...): the captured bodies are made and endRequest puts them in
\* the log (requestBody and responseBody of emitter.ts, const log); the guarded
\* onResponse receives that log
FinalizeCapture(f, responseCapture) ==
    Only({[f EXCEPT !.endCalls = @ + 1,
                    !.log = Some(log),
                    !.observed = IF f.onResponse THEN Append(@, log) ELSE @] :
          log \in {[requestBody |->
                        IF f.mode = "none" THEN Undefined
                        ELSE BodyOfCapture(f.req.buf, f.mode),
                    responseBody |->
                        IF f.mode = "none" THEN Undefined
                        ELSE BodyOfCapture(responseCapture, f.mode)]}})

\* finalize() of wrapFetch: the finished flag, then finalizeResponse and onResponse
FinalizeStream(f) ==
    IF f.finished THEN f
    ELSE FinalizeCapture([f EXCEPT !.finished = TRUE], f.resp.buf)

\* the async block of wrapFetchPreserve run as soon as a capture is rejected or
\* both are resolved: without the wait for the captures
PreserveSettleWithoutWaiting(f) ==
    IF f.pc # "capturing" THEN f
    ELSE [FinalizeCapture(f, f.resp.buf) EXCEPT !.pc = "done"]

\* the async block of wrapFetchPreserve: await Promise.all of the two captures, then
\* finalizeResponse and onResponse; a rejected capture is logged by the .catch
PreserveSettle(f) ==
    IF f.pc # "capturing" THEN f
    ELSE IF f.req.state = "failed" \/ f.resp.state = "failed"
    THEN [f EXCEPT !.pc = "done", !.warned = TRUE]
    ELSE IF f.req.state = "done" /\ f.resp.state = "done"
    THEN [FinalizeCapture(f, f.resp.buf) EXCEPT !.pc = "done"]
    ELSE f

\* ---- inputs of the capture specification
CaptureChunks == {<< <<1, 2>> >>, << <<2, 3>> >>}
ChunkSeqs(n) == UNION {[1..k -> CaptureChunks] : k \in 0..n}
CaptureLimits == {0, 3, 65536}

CapIdle ==
    [kind |-> "none", pc |-> "idle", limit |-> 0, mode |-> "text", onResponse |-> FALSE,
     hasBody |-> FALSE, req |-> Stream(<<>>, "done"), resp |-> Stream(<<>>, "done"),
     finished |-> FALSE, closed |-> FALSE, delivered |-> FALSE, cause |-> "none",
     endCalls |-> 0, log |-> Undefined, observed |-> <<>>, warned |-> FALSE]

CapUnchanged == UNCHANGED <<lbVars, coreVars, ad, mr, rd, fn>>

CapInit ==
    /\ BufIdle
    /\ CoreIdle
    /\ AdIdle
    /\ mr = <<>>
    /\ rd = <<>>
    /\ fn = <<>>
    /\ fc = CapIdle

\* the wrapper is called: the options and the request body are fixed, the handler
\* is called (wrapFetchPreserve starts the capture of the request clone first)
CapRequest ==
    \E kind \in {"fetch", "preserve"}, limit \in CaptureLimits,
       mode \in {"text", "base64", "none"}, onResponse \in BOOLEAN,
       reqChunks \in ChunkSeqs(1), reqEnding \in {"done", "error"} :
        /\ fc.pc = "idle"
        /\ fc' = [fc EXCEPT !.kind = kind, !.pc = "handler", !.limit = limit,
                            !.mode = mode, !.onResponse = onResponse,
                            !.req = IF kind = "preserve" /\ mode # "none"
                                    THEN CaptureClone(Stream(reqChunks, reqEnding), TRUE, limit)
                                    ELSE Stream(<<>>, "done")]
        /\ CapUnchanged

\* the handler of wrapFetch returns a Response: without a body it is finalized at
\* once, with one the body is wrapped and the response is handed over
CapFetchReturns ==
    \E hasBody \in BOOLEAN, chunks \in ChunkSeqs(MaxChunks), ending \in {"done", "error"} :
        /\ fc.kind = "fetch" /\ fc.pc = "handler"
        /\ hasBody \/ (chunks = <<>> /\ ending = "done")
        /\ fc' = IF ~hasBody \/ fc.mode = "none"
                 THEN [FinalizeCapture(fc, Undefined) EXCEPT
                           !.pc = "done", !.delivered = TRUE, !.hasBody = hasBody]
                 ELSE [fc EXCEPT !.pc = "streaming", !.delivered = TRUE, !.hasBody = TRUE,
                                 !.resp = [Stream(chunks, ending) EXCEPT
                                              !.buf = Some(LimitedBufferNew(
                                                  [finite |-> TRUE, value |-> fc.limit])),
                                              !.state = "pending"]]
        /\ CapUnchanged

\* pull() of the wrapped stream: a chunk is captured and passed on, the end closes
\* the stream and finalizes, a failed read calls onError and onFinish
CapFetchPull ==
    /\ fc.kind = "fetch" /\ fc.pc = "streaming" /\ ~fc.closed
    /\ fc' = IF fc.resp.chunks # <<>>
             THEN [fc EXCEPT !.resp = ReadStep(@)]
             ELSE IF fc.resp.ending = "done"
             THEN [FinalizeStream([fc EXCEPT !.resp = ReadStep(@)]) EXCEPT
                       !.closed = TRUE, !.pc = "done", !.cause = "end"]
             ELSE [FinalizeStream(FinalizeStream([fc EXCEPT !.resp = ReadStep(@)])) EXCEPT
                       !.closed = TRUE, !.pc = "done", !.cause = "error"]
    /\ CapUnchanged

\* cancel() of the wrapped stream: reader.cancel, then onFinish
CapFetchCancel ==
    /\ fc.kind = "fetch" /\ fc.pc = "streaming" /\ ~fc.closed
    /\ fc' = [FinalizeStream(fc) EXCEPT !.closed = TRUE, !.pc = "done", !.cause = "cancel"]
    /\ CapUnchanged

\* the handler of wrapFetchPreserve returns a Response: the capture of its clone is
\* started and the response is returned as it is
CapPreserveReturns ==
    \E hasBody \in BOOLEAN, chunks \in ChunkSeqs(MaxChunks), ending \in {"done", "error"} :
        /\ fc.kind = "preserve" /\ fc.pc = "handler"
        /\ hasBody \/ (chunks = <<>> /\ ending = "done")
        /\ fc' = PreserveSettle(
                     [fc EXCEPT !.pc = "capturing", !.delivered = TRUE, !.hasBody = hasBody,
                                !.resp = IF fc.mode = "none" THEN Stream(chunks, ending)
                                         ELSE CaptureClone(Stream(chunks, ending), hasBody,
                                                           fc.limit)])
        /\ CapUnchanged

\* readStreamToBuffer on the clone of the request reads once more
CapReadRequestClone ==
    /\ fc.kind = "preserve" /\ fc.pc \in {"handler", "capturing"}
    /\ fc.req.state = "pending"
    /\ fc' = PreserveSettle([fc EXCEPT !.req = ReadStep(@)])
    /\ CapUnchanged

\* readStreamToBuffer on the clone of the response reads once more
CapReadResponseClone ==
    /\ fc.kind = "preserve" /\ fc.pc = "capturing"
    /\ fc.resp.state = "pending"
    /\ fc' = PreserveSettle(
                 [fc EXCEPT !.resp = ReadStep(@),
                            !.cause = IF fc.resp.chunks = <<>> /\ fc.resp.ending = "error"
                                      THEN "error" ELSE @])
    /\ CapUnchanged

\* the caller cancels the body of the response wrapFetchPreserve returned; the
\* clone is another branch of the body and is read on
CapPreserveCancel ==
    /\ fc.kind = "preserve" /\ fc.pc = "capturing" /\ fc.hasBody
    /\ fc.cause = "none"
    /\ fc' = [fc EXCEPT !.cause = "cancel"]
    /\ CapUnchanged

CapNext ==
    \/ CapRequest
    \/ CapFetchReturns
    \/ CapFetchPull
    \/ CapFetchCancel
    \/ CapPreserveReturns
    \/ CapReadRequestClone
    \/ CapReadResponseClone
    \/ CapPreserveCancel

SpecCapture == CapInit /\ [][CapNext]_vars

\* ---- properties of the capture

\* the captured body of what a reader saw of a stream, under the limit
BodyOfSeen(seen, limit, mode) ==
    MakeCapturedBody(RTake(seen, Min(limit, RLen(seen))), RLen(seen), RLen(seen) > limit,
                     IF mode = "text" THEN "text" ELSE "base64")

\* the adapter has nothing left to do for the request
CapQuiescent == fc.pc = "done"

\* C11: when the response body stream is cancelled by its consumer or a read of it
\* fails part-way, the request is finalized by exactly one endRequest and the
\* response body of the log is the capture of the bytes read until then, for
\* wrapFetch and for wrapFetchPreserve.
C11_PartialBodyIsKept ==
    (/\ CapQuiescent
     /\ fc.cause \in {"cancel", "error"}
     /\ fc.mode # "none"
     /\ IsDefined(fc.resp.buf)) =>
        /\ fc.endCalls = 1
        /\ IsDefined(fc.log)
        /\ Get(fc.log).responseBody = BodyOfSeen(fc.resp.seen, fc.limit, fc.mode)

\* C12: wrapFetchPreserve hands the handler's response over while the captures are
\* still running; onResponse is called only when both captures are complete, with
\* a log that holds both captured bodies, and that log is the one the request
\* keeps: no body is attached to it afterwards.
C12_ObserverSeesCompleteLog ==
    fc.kind = "preserve" =>
        /\ fc.pc \in {"capturing", "done"} => fc.delivered
        /\ Len(fc.observed) <= 1
        /\ fc.observed # <<>> =>
              /\ fc.req.state = "done" /\ fc.resp.state = "done"
              /\ fc.log = Some(fc.observed[1])
              /\ IsDefined(fc.req.buf) =>
                    /\ fc.req.chunks = <<>>
                    /\ fc.observed[1].requestBody =
                           BodyOfSeen(fc.req.seen, fc.limit, fc.mode)
              /\ IsDefined(fc.resp.buf) =>
                    /\ fc.resp.chunks = <<>>
                    /\ fc.observed[1].responseBody =
                           BodyOfSeen(fc.resp.seen, fc.limit, fc.mode)

\* the response was handed over while a capture was pending, and later onResponse
\* received a log with a truncated request body and a response body
C12_Witness ==
    /\ fc.kind = "preserve"
    /\ fc.delivered
    /\ fc.pc = "done"
    /\ fc.observed # <<>>
    /\ IsDefined(fc.observed[1].requestBody)
    /\ IsDefined(fc.observed[1].responseBody)
    /\ Get(fc.observed[1].responseBody).truncated
    /\ RLen(fc.resp.seen) >= 4

(***************************************************************************)
(* Redaction (redaction.ts, header_redaction.ts).  Header names and values *)
(* are strings of characters; the replacement token is one character of    *)
(* the model's alphabet.                                                   *)
(***************************************************************************)
StartsWith(s, p) == Len(s) >= Len(p) /\ SubSeq(s, 1, Len(p)) = p
EndsWith(s, p) == Len(s) >= Len(p) /\ SubSeq(s, Len(s) - Len(p) + 1, Len(s)) = p
Includes(s, p) == \E i \in 0..(Len(s) - Len(p)) : SubSeq(s, i + 1, i + Len(p)) = p

\* the 0-based index of the first c in s at or after position i, -1 when absent
RECURSIVE IndexFrom(_, _, _)
IndexFrom(s, c, i) ==
    IF i > Len(s) THEN -1 ELSE IF s[i] = c THEN i - 1 ELSE IndexFrom(s, c, i + 1)

\* String.prototype.indexOf for one character
IndexOf(s, c) == IndexFrom(s, c, 1)

\* String.prototype.slice(from, to) for 0 <= from <= to
Slice(s, from, to) == SubSeq(s, from + 1, Min(to, Len(s)))
SliceFrom(s, from) == SubSeq(s, from + 1, Len(s))

\* String.prototype.split for a one-character separator
RECURSIVE Split(_, _)
Split(s, c) ==
    Only({IF i = -1 THEN <<s>> ELSE <<Slice(s, 0, i)>> \o Split(SliceFrom(s, i + 1), c) :
             i \in {IndexOf(s, c)}})

\* Array.prototype.join
RECURSIVE Join(_, _)
Join(parts, sep) ==
    IF parts = <<>> THEN <<>>
    ELSE IF Len(parts) = 1 THEN parts[1]
    ELSE parts[1] \o sep \o Join(Tail(parts), sep)

Replacement == <<"[REDACTED]">>

SchemeBasic == <<"b", "a", "s", "i", "c">>
SchemeBearer == <<"b", "e", "a", "r", "e", "r">>
SchemeDigest == <<"d", "i", "g", "e", "s", "t">>
SchemeNegotiate == <<"n", "e", "g", "o", "t", "i", "a", "t", "e">>

\* authSchemePrefix(value)
AuthSchemePrefix(value) ==
    IF value = <<>> THEN <<>>
    ELSE IF StartsWith(ToLowerCase(value), SchemeBasic) THEN Slice(value, 0, Len(SchemeBasic))
    ELSE IF StartsWith(ToLowerCase(value), SchemeBearer) THEN Slice(value, 0, Len(SchemeBearer))
    ELSE IF StartsWith(ToLowerCase(value), SchemeDigest) THEN Slice(value, 0, Len(SchemeDigest))
    ELSE IF StartsWith(ToLowerCase(value), SchemeNegotiate)
         THEN Slice(value, 0, Len(SchemeNegotiate))
    ELSE <<>>

\* redactCookieValue's loop body without the redaction: the segment is kept as it is
RedactCookiePartKeepingValue(part, replacement) == Trim(part)

\* one part of the cookie header in redactCookieValue's loop
RedactCookiePart(part, replacement) ==
    IF Trim(part) = <<>> THEN replacement
    ELSE IF IndexOf(Trim(part), "=") <= 0 THEN replacement
    ELSE Slice(Trim(part), 0, IndexOf(Trim(part), "=")) \o <<"=">> \o replacement

\* redactCookieValue(value, replacement)
RedactCookieValue(value, replacement) ==
    IF value = <<>> THEN replacement
    ELSE Only({Join([i \in 1..Len(parts) |-> RedactCookiePart(parts[i], replacement)],
                    <<";", " ">>) : parts \in {Split(value, ";")}})

\* redactSetCookieValue(value, replacement)
RedactSetCookieValue(value, replacement) ==
    IF value = <<>> THEN replacement
    ELSE LET first == Head(Split(value, ";"))
             parts == Tail(Split(value, ";"))
         IN IF IndexOf(first, "=") <= 0 THEN replacement
            ELSE IF parts = <<>>
                 THEN Slice(first, 0, IndexOf(first, "=")) \o <<"=">> \o replacement
            ELSE Slice(first, 0, IndexOf(first, "=")) \o <<"=">> \o replacement \o <<";">>
                     \o Join(parts, <<";">>)

HeaderAuthorization ==
    <<"a", "u", "t", "h", "o", "r", "i", "z", "a", "t", "i", "o", "n">>
HeaderProxyAuthorization == <<"p", "r", "o", "x", "y", "-">> \o HeaderAuthorization
HeaderCookie == <<"c", "o", "o", "k", "i", "e">>
HeaderSetCookie == <<"s", "e", "t", "-">> \o HeaderCookie
HeaderContentType == <<"c", "o", "n", "t", "e", "n", "t", "-", "t", "y", "p", "e">>
HeaderApiKey == <<"x", "-", "a", "p", "i", "-", "k", "e", "y">>
HeaderContentTypeCapitalized == <<"C", "o", "n", "t", "e", "n", "t", "-", "T", "y", "p", "e">>

\* redactHeaderValue(name, value, replacement): name is already lower-cased
RedactHeaderValue(name, value, replacement) ==
    IF name \in {HeaderAuthorization, HeaderProxyAuthorization}
    THEN IF AuthSchemePrefix(value) = <<>> THEN replacement
         ELSE AuthSchemePrefix(value) \o <<" ">> \o replacement
    ELSE IF name = HeaderCookie THEN RedactCookieValue(value, replacement)
    ELSE IF name = HeaderSetCookie THEN RedactSetCookieValue(value, replacement)
    ELSE replacement

\* a header is its name and its value: one string, or an array of strings
HeaderEntry(name, isArray, values) == [name |-> name, isArray |-> isArray, values |-> values]

\* redactHeaders(headers, config): headers are Object.entries(headers), in order
RedactHeaders(headers, config) ==
    Only({[i \in 1..Len(headers) |->
             Only({IF lower \notin list THEN headers[i]
                   ELSE [headers[i] EXCEPT !.values =
                            [k \in 1..Len(@) |->
                                RedactHeaderValue(lower, @[k], config.replacement)]] :
                      lower \in {ToLowerCase(headers[i].name)}})] :
             list \in {{ToLowerCase(n) : n \in config.headers}}})

(***************************************************************************)
(* URL redaction.  A url is text; the scheme with its "://" and every      *)
(* percent escape are one character of the model's alphabet.  ParseUrl and *)
(* SerializeUrl are the WHATWG URL parser and serializer on this alphabet, *)
(* ParseQuery and SerializeQuery the application/x-www-form-urlencoded     *)
(* parser and serializer of URLSearchParams.                               *)
(***************************************************************************)
UrlSchemes == {"http://"}

\* 0-based index of the first character of s that is in set, Len(s) when none is
IndexOfAny(s, set) ==
    IF \E i \in 1..Len(s) : s[i] \in set
    THEN (CHOOSE i \in 1..Len(s) : s[i] \in set /\ \A j \in 1..(i - 1) : s[j] \notin set) - 1
    ELSE Len(s)

\* the path of a special-scheme url: single-dot segments are removed, an empty
\* path is "/"
RECURSIVE RemoveDotSegments(_)
RemoveDotSegments(segments) ==
    IF segments = <<>> THEN <<>>
    ELSE IF Head(segments) = <<".">>
         THEN IF Tail(segments) = <<>> THEN << <<>> >> ELSE RemoveDotSegments(Tail(segments))
    ELSE <<Head(segments)>> \o RemoveDotSegments(Tail(segments))

NormalizePath(path) ==
    IF path = <<>> THEN <<"/">>
    ELSE <<"/">> \o Join(RemoveDotSegments(Split(Tail(path), "/")), <<"/">>)

\* new URL(value): ok is FALSE when the constructor throws
ParseUrl(value) ==
    IF value = <<>> \/ Head(value) \notin UrlSchemes
    THEN [ok |-> FALSE, scheme |-> "", host |-> <<>>, path |-> <<>>, hasQuery |-> FALSE,
          query |-> <<>>, hasFragment |-> FALSE, fragment |-> <<>>]
    ELSE LET rest == Tail(value)
             hostEnd == IndexOfAny(rest, {"/", "?", "#"})
             afterHost == SliceFrom(rest, hostEnd)
             pathEnd == IndexOfAny(afterHost, {"?", "#"})
             afterPath == SliceFrom(afterHost, pathEnd)
             hasQuery == afterPath # <<>> /\ Head(afterPath) = "?"
             queryEnd == IF hasQuery THEN IndexOfAny(afterPath, {"#"}) ELSE 0
             afterQuery == SliceFrom(afterPath, queryEnd)
         IN [ok |-> TRUE, scheme |-> Head(value),
             host |-> ToLowerCase(Slice(rest, 0, hostEnd)),
             path |-> NormalizePath(Slice(afterHost, 0, pathEnd)),
             hasQuery |-> hasQuery,
             query |-> IF hasQuery THEN Slice(afterPath, 1, queryEnd) ELSE <<>>,
             hasFragment |-> afterQuery # <<>>,
             fragment |-> IF afterQuery # <<>> THEN Tail(afterQuery) ELSE <<>>]

\* URL.prototype.toString
SerializeUrl(u) ==
    <<u.scheme>> \o u.host \o u.path
    \o (IF u.hasQuery THEN <<"?">> \o u.query ELSE <<>>)
    \o (IF u.hasFragment THEN <<"#">> \o u.fragment ELSE <<>>)

\* percent-decoding of one character of a query: "+" is a space
DecodeQueryChar(c) ==
    CASE c = "+" -> " "
      [] c = "%20" -> " "
      [] c = "%2F" -> "/"
      [] c = "%74" -> "t"
      [] c = "%5BREDACTED%5D" -> "[REDACTED]"
      [] OTHER -> c

\* percent-encoding of one character by the urlencoded serializer
EncodeQueryChar(c) ==
    CASE c = " " -> "+"
      [] c = "/" -> "%2F"
      [] c = "[REDACTED]" -> "%5BREDACTED%5D"
      [] OTHER -> c

DecodeQuery(s) == [i \in 1..Len(s) |-> DecodeQueryChar(s[i])]
EncodeQuery(s) == [i \in 1..Len(s) |-> EncodeQueryChar(s[i])]

RECURSIVE DropEmpty(_)
DropEmpty(parts) ==
    IF parts = <<>> THEN <<>>
    ELSE IF Head(parts) = <<>> THEN DropEmpty(Tail(parts))
    ELSE <<Head(parts)>> \o DropEmpty(Tail(parts))

\* one name/value pair of the query: the text up to the first "=" and the text after it
ParseQueryPair(part) ==
    IF IndexOf(part, "=") = -1 THEN <<DecodeQuery(part), <<>> >>
    ELSE <<DecodeQuery(Slice(part, 0, IndexOf(part, "="))),
           DecodeQuery(SliceFrom(part, IndexOf(part, "=") + 1))>>

\* url.searchParams: the decoded name/value pairs, in order
ParseQuery(query) ==
    Only({[i \in 1..Len(parts) |-> ParseQueryPair(parts[i])] :
             parts \in {DropEmpty(Split(query, "&"))}})

\* URLSearchParams.prototype.toString
SerializeQuery(params) ==
    Join([i \in 1..Len(params) |->
             EncodeQuery(params[i][1]) \o <<"=">> \o EncodeQuery(params[i][2])], <<"&">>)

\* the callback of params.forEach in redactUrl without the lower-casing of the key
RedactQueryParamExactCase(pair, config) ==
    IF pair[1] \in {ToLowerCase(key) : key \in config.queryParams}
    THEN <<pair[1], config.replacement>>
    ELSE pair

\* the callback of params.forEach in redactUrl
RedactQueryParam(pair, config) ==
    IF ToLowerCase(pair[1]) \in {ToLowerCase(key) : key \in config.queryParams}
    THEN <<pair[1], config.replacement>>
    ELSE pair

\* redactUrl(value, config) on the text of the url
RedactUrlText(value, config) ==
    IF value = <<>> \/ config.queryParams = {} THEN value
    ELSE Only({IF ~parsed.ok THEN value
               ELSE Only({IF params = <<>> THEN value
                          ELSE SerializeUrl([parsed EXCEPT
                                   !.hasQuery = TRUE,
                                   !.query = SerializeQuery(
                                       [i \in 1..Len(params) |->
                                           RedactQueryParam(params[i], config)])]) :
                             params \in {ParseQuery(parsed.query)}}) :
                  parsed \in {ParseUrl(value)}})

(***************************************************************************)
(* JSON body redaction.  A JSON document is a tagged value; the members of *)
(* an object are name/value pairs in insertion order.  Property names and  *)
(* the words of a path are one character of the model's alphabet each.     *)
(***************************************************************************)
JNull == [t |-> "null", s |-> <<>>, n |-> 0, m |-> <<>>]
JStr(s) == [JNull EXCEPT !.t = "string", !.s = s]
JNum(n) == [JNull EXCEPT !.t = "number", !.n = n]
\* the elements of an array are members without a name
JArr(items) ==
    [JNull EXCEPT !.t = "array", !.m = [i \in 1..Len(items) |-> <<EmptyString, items[i]>>]]
JObj(members) == [JNull EXCEPT !.t = "object", !.m = members]
\* values redactJsonPath can step on that are not part of the document
JsFunction == [JNull EXCEPT !.t = "function"]
ObjectPrototype == [JNull EXCEPT !.t = "prototype"]

DigitChars == <<"0", "1", "2", "3", "4", "5", "6", "7", "8", "9">>
IsDigit(c) == \E i \in 1..Len(DigitChars) : DigitChars[i] = c
DigitValue(c) == (CHOOSE i \in 1..Len(DigitChars) : DigitChars[i] = c) - 1

\* Number.parseInt(digits, 10)
RECURSIVE ParseInt(_)
ParseInt(digits) ==
    IF digits = <<>> THEN 0
    ELSE ParseInt(SubSeq(digits, 1, Len(digits) - 1)) * 10 + DigitValue(digits[Len(digits)])

\* the number of digits s begins with
RECURSIVE LeadingDigits(_)
LeadingDigits(s) ==
    IF s # <<>> /\ IsDigit(Head(s)) THEN 1 + LeadingDigits(Tail(s)) ELSE 0

NumberSegment(n) == [isNumber |-> TRUE, index |-> n, name |-> EmptyString]
NameSegment(name) == [isNumber |-> FALSE, index |-> 0, name |-> name]

\* cursor.match(/\[(\d+)\]/g), each match parsed as an index
RECURSIVE BracketIndexes(_)
BracketIndexes(cursor) ==
    IF cursor = <<>> THEN <<>>
    ELSE IF /\ Head(cursor) = "["
            /\ LeadingDigits(Tail(cursor)) >= 1
            /\ Len(cursor) >= LeadingDigits(Tail(cursor)) + 2
            /\ cursor[LeadingDigits(Tail(cursor)) + 2] = "]"
         THEN <<NumberSegment(ParseInt(SubSeq(cursor, 2, LeadingDigits(Tail(cursor)) + 1)))>>
                  \o BracketIndexes(SliceFrom(cursor, LeadingDigits(Tail(cursor)) + 2))
    ELSE BracketIndexes(Tail(cursor))

\* the segments one part of the path gives (parseJsonPath's loop body)
PartSegments(part) ==
    IF part = <<>> THEN <<>>
    ELSE IF IndexOf(part, "[") = -1 THEN <<NameSegment(part)>>
    ELSE (IF IndexOf(part, "[") > 0 THEN <<NameSegment(Slice(part, 0, IndexOf(part, "[")))>>
          ELSE <<>>)
         \o BracketIndexes(SliceFrom(part, IndexOf(part, "[")))

RECURSIVE ConcatAll(_)
ConcatAll(seqs) == IF seqs = <<>> THEN <<>> ELSE Head(seqs) \o ConcatAll(Tail(seqs))

\* parseJsonPath(path): the segments, Undefined for null
ParseJsonPath(path) ==
    LET trimmed == Trim(path)
        normalized == IF StartsWith(trimmed, <<"$", ".">>) THEN SliceFrom(trimmed, 2)
                      ELSE trimmed
        segments == ConcatAll([i \in 1..Len(Split(normalized, ".")) |->
                                  PartSegments(Split(normalized, ".")[i])])
    IN IF trimmed = <<>> \/ normalized = <<>> THEN Undefined
       ELSE IF segments = <<>> THEN Undefined
       ELSE Some(segments)

\* !value
IsFalsy(value) ==
    \/ value.t = "null"
    \/ value.t = "number" /\ value.n = 0
    \/ value.t = "string" /\ value.s = <<>>

\* typeof value === 'object' for a value that is not null
IsObjectType(value) == value.t \in {"object", "array", "prototype"}

\* an array index written as a property name
IsIndexName(name) ==
    /\ name # <<>>
    /\ \A i \in 1..Len(name) : IsDigit(name[i])
    /\ Len(name) = 1 \/ name[1] # "0"

NameLength == <<"length">>
NameToString == <<"toString">>
NameProto == <<"__proto__">>
\* the properties every object inherits from Object.prototype, as far as modelled
InheritedNames == {NameToString, NameProto}

HasOwnMember(object, name) == \E i \in 1..Len(object.m) : object.m[i][1] = name
MemberIndex(object, name) == CHOOSE i \in 1..Len(object.m) : object.m[i][1] = name

\* segment in record
HasProperty(record, name) ==
    CASE record.t = "object" -> HasOwnMember(record, name) \/ name \in InheritedNames
      [] record.t = "array" ->
            \/ IsIndexName(name) /\ ParseInt(name) < Len(record.m)
            \/ name = NameLength
            \/ name \in InheritedNames
      [] OTHER -> name \in InheritedNames

\* record[segment]
GetProperty(record, name) ==
    IF record.t = "object" /\ HasOwnMember(record, name)
    THEN record.m[MemberIndex(record, name)][2]
    ELSE IF record.t = "array" /\ IsIndexName(name) THEN record.m[ParseInt(name) + 1][2]
    ELSE IF record.t = "array" /\ name = NameLength THEN JNum(Len(record.m))
    ELSE IF name = NameToString THEN JsFunction
    ELSE IF record.t = "prototype" THEN JNull
    ELSE ObjectPrototype

Walked(doc, threw, polluted) == [doc |-> doc, threw |-> threw, polluted |-> polluted]

\* record[segment] = value: the record afterwards, whether the assignment threw
\* and whether it wrote to Object.prototype
SetProperty(record, name, value) ==
    IF record.t = "object" /\ HasOwnMember(record, name)
    THEN Walked([record EXCEPT !.m[MemberIndex(record, name)][2] = value], FALSE, FALSE)
    ELSE IF record.t = "array" /\ IsIndexName(name)
         THEN Walked([record EXCEPT !.m[ParseInt(name) + 1][2] = value], FALSE, FALSE)
    ELSE IF record.t = "array" /\ name = NameLength THEN Walked(record, TRUE, FALSE)
    ELSE IF name = NameProto THEN Walked(record, FALSE, FALSE)
    ELSE IF record.t = "object"
         THEN Walked([record EXCEPT !.m = Append(@, <<name, value>>)], FALSE, FALSE)
    ELSE Walked(record, FALSE, record.t = "prototype")

\* the record after the value of one of its properties was changed in place
WithProperty(record, name, value) ==
    IF record.t = "object" /\ HasOwnMember(record, name)
    THEN [record EXCEPT !.m[MemberIndex(record, name)][2] = value]
    ELSE IF record.t = "array" /\ IsIndexName(name)
         THEN [record EXCEPT !.m[ParseInt(name) + 1][2] = value]
    ELSE record

\* the loop of redactJsonPath from "current" on
RECURSIVE WalkJsonPath(_, _, _)
WalkJsonPath(current, segments, replacement) ==
    IF Head(segments).isNumber
    THEN IF current.t # "array" \/ Head(segments).index >= Len(current.m)
         THEN Walked(current, FALSE, FALSE)
         ELSE IF Len(segments) = 1
              THEN Walked([current EXCEPT !.m[Head(segments).index + 1][2] = JStr(replacement)],
                          FALSE, FALSE)
         ELSE Only({[r EXCEPT !.doc = [current EXCEPT !.m[Head(segments).index + 1][2] = r.doc]] :
                       r \in {WalkJsonPath(current.m[Head(segments).index + 1][2], Tail(segments),
                                           replacement)}})
    ELSE IF IsFalsy(current) \/ ~IsObjectType(current) THEN Walked(current, FALSE, FALSE)
    ELSE IF ~HasProperty(current, Head(segments).name) THEN Walked(current, FALSE, FALSE)
    ELSE IF Len(segments) = 1 THEN SetProperty(current, Head(segments).name, JStr(replacement))
    ELSE Only({[r EXCEPT !.doc = WithProperty(current, Head(segments).name, r.doc)] :
                  r \in {WalkJsonPath(GetProperty(current, Head(segments).name), Tail(segments),
                                      replacement)}})

\* redactJsonPath(value, segments, replacement): the document afterwards
RedactJsonPath(value, segments, replacement) ==
    IF IsFalsy(value) \/ segments = <<>> THEN Walked(value, FALSE, FALSE)
    ELSE WalkJsonPath(value, segments, replacement)

\* the loop over config.bodyJsonPaths in redactBody: a throwing assignment ends it
RECURSIVE RedactJsonPaths(_, _, _)
RedactJsonPaths(parsed, paths, replacement) ==
    IF paths = <<>> THEN Walked(parsed, FALSE, FALSE)
    ELSE IF ~IsDefined(ParseJsonPath(Head(paths)))
         THEN RedactJsonPaths(parsed, Tail(paths), replacement)
    ELSE Only({IF r.threw THEN r
               ELSE Only({[s EXCEPT !.polluted = r.polluted \/ s.polluted] :
                             s \in {RedactJsonPaths(r.doc, Tail(paths), replacement)}}) :
                  r \in {RedactJsonPath(parsed, Get(ParseJsonPath(Head(paths))), replacement)}})

(***************************************************************************)
(* Body redaction.  The text of a body is JSON text (the document it       *)
(* parses to, and whether it is written the way JSON.stringify writes it), *)
(* other text, or empty.                                                   *)
(***************************************************************************)
JsonText(doc, compact) == [kind |-> "json", doc |-> doc, compact |-> compact]
OtherText == [kind |-> "other", doc |-> JNull, compact |-> TRUE]
EmptyText == [kind |-> "empty", doc |-> JNull, compact |-> TRUE]

\* JSON.parse(text) throws for text that is not JSON
JsonParses(text) == text.kind = "json"
JsonParse(text) == text.doc
\* JSON.stringify(value)
JsonStringify(doc) == JsonText(doc, TRUE)

CapturedBody(value, encoding) == [value |-> value, encoding |-> encoding, truncated |-> FALSE]

TypeApplicationJson ==
    <<"a", "p", "p", "l", "i", "c", "a", "t", "i", "o", "n", "/", "j", "s", "o", "n">>
SuffixJson == <<"+", "j", "s", "o", "n">>

\* headers[name]: the entry with exactly this name, Undefined when there is none
HeaderNamed(headers, name) ==
    IF \E i \in 1..Len(headers) : headers[i].name = name
    THEN Some(headers[CHOOSE i \in 1..Len(headers) : headers[i].name = name])
    ELSE Undefined

\* a header value is truthy unless it is the empty string (an array always is)
IsTruthyHeader(entry) == IsDefined(entry) /\ (Get(entry).isArray \/ Get(entry).values # <<EmptyString>>)

\* isJsonContentType that takes every body for JSON
IsJsonContentTypeOfAnyType(headers) == TRUE

\* isJsonContentType(headers)
IsJsonContentType(headers) ==
    IF ~IsDefined(headers) THEN FALSE
    ELSE LET contentType == IF IsTruthyHeader(HeaderNamed(Get(headers), HeaderContentType))
                            THEN HeaderNamed(Get(headers), HeaderContentType)
                            ELSE HeaderNamed(Get(headers), HeaderContentTypeCapitalized)
             value == IF ~IsDefined(contentType) \/ Get(contentType).values = <<>>
                      THEN EmptyString
                      ELSE Get(contentType).values[1]
             trimmed == ToLowerCase(Trim(Head(Split(value, ";"))))
         IN /\ value # EmptyString
            /\ Head(Split(value, ";")) # EmptyString
            /\ (trimmed = TypeApplicationJson \/ EndsWith(trimmed, SuffixJson))

\* redactBody(body, headers, config): the body, and whether redactJsonPath threw
RedactBody(body, headers, config) ==
    IF config.bodyJsonPaths = <<>> THEN [body |-> body, threw |-> FALSE]
    ELSE IF body.value.kind = "empty" \/ body.encoding # "utf8" THEN [body |-> body, threw |-> FALSE]
    ELSE IF ~IsJsonContentType(headers) THEN [body |-> body, threw |-> FALSE]
    ELSE IF ~JsonParses(body.value) THEN [body |-> body, threw |-> FALSE]
    ELSE Only({[body |-> [body EXCEPT !.value = JsonStringify(r.doc)], threw |-> r.threw] :
                  r \in {RedactJsonPaths(JsonParse(body.value), config.bodyJsonPaths,
                                         config.replacement)}})

OptRedactHeaders(headers, config) ==
    IF IsDefined(headers) THEN Some(RedactHeaders(Get(headers), config)) ELSE headers

\* applyRedaction(config, log) on the headers, the url and the bodies of a log:
\* the redacted log, and whether the call threw
ApplyRedactionWith(config, log) ==
    Only({Only({[log |-> [log EXCEPT !.requestHeaders = headers[1],
                                     !.responseHeaders = headers[2],
                                     !.url = RedactUrlText(@, config),
                                     !.requestBody = IF IsDefined(@) THEN Some(bodies[1].body)
                                                     ELSE @,
                                     !.responseBody = IF IsDefined(@) THEN Some(bodies[2].body)
                                                      ELSE @],
                 threw |-> bodies[1].threw \/ bodies[2].threw] :
                    bodies \in {<<IF IsDefined(log.requestBody)
                                  THEN RedactBody(Get(log.requestBody), headers[1], config)
                                  ELSE [body |-> <<>>, threw |-> FALSE],
                                  IF IsDefined(log.responseBody)
                                  THEN RedactBody(Get(log.responseBody), headers[2], config)
                                  ELSE [body |-> <<>>, threw |-> FALSE]>>}}) :
             headers \in {<<OptRedactHeaders(log.requestHeaders, config),
                            OptRedactHeaders(log.responseHeaders, config)>>}})

(***************************************************************************)
(* The redaction functions applied to inputs drawn from bounded sets.  rd  *)
(* holds the operation, its input, the redaction configuration and, once   *)
(* the function was applied, its result.                                   *)
(***************************************************************************)
RedactionConfig(headers, queryParams, bodyJsonPaths) ==
    [headers |-> headers, queryParams |-> queryParams, bodyJsonPaths |-> bodyJsonPaths,
     replacement |-> Replacement]

\* defaultRedaction().headers
DefaultRedactionHeaders == {HeaderAuthorization, HeaderCookie, HeaderSetCookie, HeaderApiKey}

RdInput(op, input, origin, config) ==
    [op |-> op, pc |-> "input", input |-> input, origin |-> origin, config |-> config,
     out |-> <<>>, threw |-> FALSE]

\* an authorization value: the scheme token, the separator and the credential
AuthValue(scheme, credential) ==
    [scheme |-> scheme, credential |-> credential,
     text |-> IF scheme = <<>> THEN credential ELSE scheme \o <<" ">> \o credential]

AuthSchemeTokens ==
    {<<>>, <<"B", "e", "a", "r", "e", "r">>, SchemeBasic, <<"D", "I", "G", "E", "S", "T">>,
     <<"N", "e", "g", "o", "t", "i", "a", "t", "e">>, <<"T", "o", "k", "e", "n">>}
\* the second credential is a bare token that happens to begin with the letters of a scheme
AuthCredentials == {<<"1", "2", "3">>, <<"d", "i", "g", "e", "s", "t", "9">>}
AuthValues == {AuthValue(s, c) : s \in AuthSchemeTokens, c \in AuthCredentials}

AuthHeaderNames ==
    {HeaderAuthorization, <<"A">> \o Tail(HeaderAuthorization),
     <<"P", "R", "O", "X", "Y", "-", "A", "U", "T", "H", "O", "R", "I", "Z", "A", "T", "I",
       "O", "N">>}

AuthRedactLists ==
    {DefaultRedactionHeaders, {<<"A">> \o Tail(HeaderAuthorization), HeaderProxyAuthorization},
     {HeaderCookie}}

AuthHeaderInputs ==
    {RdInput("headers", <<HeaderEntry(n, FALSE, <<v.text>>)>>, <<v>>,
             RedactionConfig(l, {}, <<>>)) :
        n \in AuthHeaderNames, v \in AuthValues, l \in AuthRedactLists}
    \cup {RdInput("headers", <<HeaderEntry(HeaderAuthorization, TRUE, <<v.text, w.text>>)>>,
                  <<v, w>>, RedactionConfig(DefaultRedactionHeaders, {}, <<>>)) :
             v \in AuthValues, w \in AuthValues}

\* cookie headers: values are digits, names are letters
CookieSegments ==
    {<<"a", "=", "1">>, <<" ", "b", "=", "2">>, <<"c">>, <<"=", "3">>, <<>>, <<" ">>,
     <<"d", "=">>, <<"e", "=", "4", "=", "5", " ">>}
CookieValues ==
    CookieSegments \cup {s \o <<";">> \o t : s \in CookieSegments, t \in CookieSegments}
SetCookieFirsts == {<<"s", "=", "1">>, <<" ", "s", "=", "1">>, <<"=", "1">>, <<"s">>, <<>>}
SetCookieRests ==
    {<<>>, <<";">>, <<";", " ", "P", "a", "t", "h", "=", "/">>,
     <<";", "M", "a", "x", "-", "A", "g", "e", "=", "2", ";", " ", "S", "e", "c", "u", "r", "e">>}
SetCookieValues == {f \o r : f \in SetCookieFirsts, r \in SetCookieRests}

CookieHeaderInputs ==
    {RdInput("headers", <<HeaderEntry(n, FALSE, <<v>>)>>, <<>>,
             RedactionConfig(l, {}, <<>>)) :
        n \in {HeaderCookie, <<"C">> \o Tail(HeaderCookie)}, v \in CookieValues,
        l \in {DefaultRedactionHeaders, {HeaderApiKey}}}
    \cup {RdInput("headers", <<HeaderEntry(n, a, IF a THEN <<v, v>> ELSE <<v>>)>>, <<>>,
                  RedactionConfig(l, {}, <<>>)) :
             n \in {HeaderSetCookie, <<"S", "e", "t", "-", "C">> \o SubSeq(HeaderCookie, 2, 6)},
             a \in BOOLEAN, v \in SetCookieValues,
             l \in {DefaultRedactionHeaders, {HeaderApiKey}}}

\* urls: with and without a scheme, four paths, up to two query parameters, a fragment
UrlPrefixes == {<<"http://", "H">>, <<>>}
UrlPaths == {<<>>, <<"/">>, <<"/", "a">>, <<"/", "a", "/", ".", "/", "b">>}
UrlRawParams ==
    {<<"t", "o", "k", "e", "n", "=", "1">>, <<"T", "O", "K", "E", "N", "=", "2">>,
     <<"%74", "o", "k", "e", "n", "=", "3">>, <<"a", "=", "b", "/", "c">>,
     <<"a", "=", "%20", "x", "+", "y">>, <<"f", "l", "a", "g">>, <<"=", "v">>, <<>>}
UrlQueries ==
    {<<>>} \cup {<<"?">> \o p : p \in UrlRawParams}
    \cup {<<"?">> \o p \o <<"&">> \o q : p \in UrlRawParams, q \in UrlRawParams}
UrlFragments == {<<>>, <<"#", "f">>}
UrlTexts ==
    {s \o p \o q \o f : s \in UrlPrefixes, p \in UrlPaths, q \in UrlQueries, f \in UrlFragments}

QueryParamLists ==
    {{}, {<<"t", "o", "k", "e", "n">>}, {<<"T", "o", "k", "e", "n">>}, {<<"o", "t", "h", "e", "r">>}}

UrlInputs ==
    {RdInput("url", u, <<>>, RedactionConfig({}, l, <<>>)) : u \in UrlTexts, l \in QueryParamLists}

Member(name, value) == <<name, value>>
KeyToken == <<"token">>
KeyKeep == <<"keep">>
KeyItems == <<"items">>
KeyId == <<"id">>
KeyNested == <<"nested">>
KeyCount == <<"count">>

JsonDocs ==
    {JObj(<<Member(KeyToken, JStr(<<"x">>)), Member(KeyKeep, JStr(<<"y">>))>>),
     JObj(<<Member(KeyItems, JArr(<<JObj(<<Member(KeyId, JStr(<<"1">>))>>), JStr(<<"s">>)>>)),
            Member(KeyCount, JNum(5))>>),
     JObj(<<Member(KeyNested, JObj(<<Member(KeyId, JStr(<<"1">>)), Member(KeyToken, JNull)>>)),
            Member(KeyToken, JNum(0))>>),
     JArr(<<JStr(<<"a">>), JObj(<<Member(KeyToken, JStr(<<"x">>))>>)>>),
     JNull,
     JStr(<<"s">>)}

JsonPaths ==
    {<<"$", ".", "token">>, <<"token">>, <<" ", "$", ".", "keep", " ">>,
     <<"nested", ".", "id">>, <<"nested", ".", "token">>, <<"nested", ".", "token", ".", "id">>,
     <<"items", "[", "0", "]", ".", "id">>, <<"items", "[", "1", "]", ".", "id">>,
     <<"items", "[", "1", "]">>, <<"items", "[", "5", "]">>, <<"items", "[", "1", "0", "]">>,
     <<"items", ".", "0">>, <<"items", ".", "id">>, <<"items", ".", "length">>,
     <<"count", ".", "id">>, <<"count", "[", "0", "]">>, <<"missing">>,
     <<"[", "1", "]", ".", "token">>, <<"[", "0", "]", ".", "token">>,
     <<"toString">>, <<"__proto__", ".", "toString">>, <<"$", ".">>, <<" ">>,
     <<"items", "[", "x", "]">>, <<"token", ".", ".", "id">>}

JsonPathInputs ==
    {RdInput("jsonpath", doc, path, RedactionConfig({}, {}, <<path>>)) :
        doc \in JsonDocs, path \in JsonPaths}

\* content types: JSON, JSON in upper case with a parameter, a +json type, and two that
\* are not JSON
CtJson == <<"a", "p", "p", "l", "i", "c", "a", "t", "i", "o", "n", "/", "j", "s", "o", "n">>
CtJsonCharset ==
    <<"A", "p", "p", "l", "i", "c", "a", "t", "i", "o", "n", "/", "J", "S", "O", "N", ";",
      " ", "c", "h", "a", "r", "s", "e", "t", "=", "u", "t", "f", "-", "8">>
CtVendorJson ==
    <<" ", "a", "p", "p", "l", "i", "c", "a", "t", "i", "o", "n", "/", "v", "n", "d", ".",
    "a", "p", "i", "+", "j", "s", "o", "n">>
CtPlain == <<"t", "e", "x", "t", "/", "p", "l", "a", "i", "n">>
CtJsonx ==
    <<"a", "p", "p", "l", "i", "c", "a", "t", "i", "o", "n", "/", "j", "s", "o", "n", "x">>
ContentTypeValues == {CtJson, CtJsonCharset, CtVendorJson, CtPlain, CtJsonx, EmptyString}
ContentTypeNames ==
    {HeaderContentType, HeaderContentTypeCapitalized,
     <<"C", "O", "N", "T", "E", "N", "T", "-", "T", "Y", "P", "E">>}

BodyHeaders ==
    {Undefined, Some(<<>>)}
    \cup {Some(<<HeaderEntry(n, FALSE, <<v>>)>>) : n \in ContentTypeNames, v \in ContentTypeValues}
    \cup {Some(<<HeaderEntry(HeaderContentType, TRUE, <<CtJson, CtPlain>>)>>),
          Some(<<HeaderEntry(HeaderContentType, TRUE, <<>>)>>),
          Some(<<HeaderEntry(HeaderContentType, FALSE, <<EmptyString>>)>>
               \o <<HeaderEntry(HeaderContentTypeCapitalized, FALSE, <<CtJson>>)>>)}

SecretDoc == JObj(<<Member(KeyToken, JStr(<<"x">>)), Member(KeyKeep, JStr(<<"y">>))>>)
ListDoc == JObj(<<Member(KeyItems, JArr(<<JStr(<<"a">>)>>))>>)

Bodies ==
    {Undefined}
    \cup {Some(CapturedBody(t, e)) :
             t \in {JsonText(SecretDoc, TRUE), JsonText(SecretDoc, FALSE), JsonText(ListDoc, TRUE),
                    JsonText(JNull, TRUE), OtherText, EmptyText},
             e \in {"utf8", "base64"}}

BodyPathLists ==
    {<<>>, << <<"$", ".", "token">> >>, << <<"missing">>, <<"items", ".", "length">> >>, << <<" ">> >>}

BodyRedactLists == {{}, {HeaderContentType}}

RedactableLog(requestHeaders, requestBody, responseHeaders, responseBody) ==
    [requestHeaders |-> requestHeaders, responseHeaders |-> responseHeaders, url |-> EmptyString,
     requestBody |-> requestBody, responseBody |-> responseBody]

\* the response of the second set of inputs: a JSON body under a JSON content type
JsonResponseHeaders == Some(<<HeaderEntry(HeaderContentType, FALSE, <<CtJson>>)>>)
JsonResponseBody == Some(CapturedBody(JsonText(SecretDoc, FALSE), "utf8"))

BodyInputs ==
    {RdInput("body", RedactableLog(h, b, Undefined, Undefined), <<>>, RedactionConfig(l, {}, p)) :
        h \in BodyHeaders, b \in Bodies, l \in BodyRedactLists, p \in BodyPathLists}
    \cup {RdInput("body", RedactableLog(h, b, JsonResponseHeaders, JsonResponseBody), <<>>,
                  RedactionConfig({}, {}, << <<"$", ".", "token">> >>)) :
             h \in BodyHeaders, b \in Bodies}
    \cup {RdInput("body", RedactableLog(JsonResponseHeaders, JsonResponseBody, h, b), <<>>,
                  RedactionConfig({}, {}, << <<"$", ".", "token">> >>)) :
             h \in BodyHeaders, b \in Bodies}

RdUnchanged == UNCHANGED <<lbVars, coreVars, ad, fc, mr, fn>>

RdInit ==
    /\ BufIdle /\ CoreIdle /\ AdIdle
    /\ fc = <<>> /\ mr = <<>> /\ fn = <<>>
    /\ \/ rd \in AuthHeaderInputs \cup CookieHeaderInputs
       \/ rd \in UrlInputs
       \/ rd \in JsonPathInputs
       \/ rd \in BodyInputs

\* redactHeaders is applied to the headers
RdRedactHeaders ==
    /\ rd.op = "headers" /\ rd.pc = "input"
    /\ rd' = [rd EXCEPT !.pc = "done", !.out = RedactHeaders(rd.input, rd.config)]
    /\ RdUnchanged

\* redactUrl is applied to the url
RdRedactUrl ==
    /\ rd.op = "url" /\ rd.pc = "input"
    /\ rd' = [rd EXCEPT !.pc = "done", !.out = RedactUrlText(rd.input, rd.config)]
    /\ RdUnchanged

\* the configured path is applied to the parsed body
RdRedactJsonPath ==
    /\ rd.op = "jsonpath" /\ rd.pc = "input"
    /\ \E r \in {RedactJsonPaths(rd.input, rd.config.bodyJsonPaths, rd.config.replacement)} :
          rd' = [rd EXCEPT !.pc = "done", !.out = r, !.threw = r.threw]
    /\ RdUnchanged

\* applyRedaction is applied to a log with headers and bodies
RdApplyRedaction ==
    /\ rd.op = "body" /\ rd.pc = "input"
    /\ \E r \in {ApplyRedactionWith(rd.config, rd.input)} :
          rd' = [rd EXCEPT !.pc = "done", !.out = IF r.threw THEN <<>> ELSE r.log,
                           !.threw = r.threw]
    /\ RdUnchanged

RdNext == RdRedactHeaders \/ RdRedactUrl \/ RdRedactJsonPath \/ RdApplyRedaction

SpecRedaction == RdInit /\ [][RdNext]_vars

RdListed(i) ==
    ToLowerCase(rd.input[i].name) \in {ToLowerCase(n) : n \in rd.config.headers}

\* some three consecutive characters of part occur in text
CarriesPartOf(part, text) ==
    \E i \in 1..(Len(part) - 2) : Includes(text, SubSeq(part, i, i + 2))

\* C16: a listed authorization or proxy-authorization header, in any letter case,
\* is redacted to the original scheme token, a space and the replacement token (the
\* replacement alone when the value has no scheme), and nothing of the credential
\* is left in it.
C16_AuthKeepsSchemeOnly ==
    (/\ rd.op = "headers" /\ rd.pc = "done"
     /\ ToLowerCase(rd.input[1].name) \in {HeaderAuthorization, HeaderProxyAuthorization}
     /\ RdListed(1)) =>
        \A k \in 1..Len(rd.out[1].values) :
            /\ rd.out[1].values[k] =
                  IF rd.origin[k].scheme = <<>> THEN Replacement
                  ELSE rd.origin[k].scheme \o <<" ">> \o Replacement
            /\ ~CarriesPartOf(rd.origin[k].credential, rd.out[1].values[k])

\* the characters cookie values are made of
CookieValueChars == {"1", "2", "3", "4", "5"}
FreeOfCookieValue(text) == \A i \in 1..Len(text) : text[i] \notin CookieValueChars

\* a cookie segment has a name when an "=" follows at least one character
HasCookieName(segment) == IndexOf(segment, "=") > 0
CookieNameOf(segment) == Slice(segment, 0, IndexOf(segment, "="))

RedactedCookieSegment(segment) ==
    IF HasCookieName(segment) THEN CookieNameOf(segment) \o <<"=">> \o Replacement
    ELSE Replacement

\* the part of a header value from its first ";" on (nothing when it has none)
FromFirstSemicolon(text) ==
    IF IndexOf(text, ";") = -1 THEN <<>> ELSE SliceFrom(text, IndexOf(text, ";"))
UpToFirstSemicolon(text) ==
    IF IndexOf(text, ";") = -1 THEN text ELSE Slice(text, 0, IndexOf(text, ";"))

RdQueryNameListed(name) ==
    ToLowerCase(name) \in {ToLowerCase(key) : key \in rd.config.queryParams}

\* C18: the redacted url has the parameters of the url in the same order and
\* under the same names; the value of a parameter whose name is listed, in any
\* letter case, is the replacement and the value of every other parameter is the
\* one it had; host, path and fragment are the ones the url had; a url that does
\* not parse is returned as it is.  Names, values and path are compared as the URL
\* parser reads them.
C18_OnlyListedParamsChange ==
    (rd.op = "url" /\ rd.pc = "done") =>
        IF ~ParseUrl(rd.input).ok THEN rd.out = rd.input
        ELSE /\ ParseUrl(rd.out).ok
             /\ ParseUrl(rd.out).host = ParseUrl(rd.input).host
             /\ ParseUrl(rd.out).path = ParseUrl(rd.input).path
             /\ ParseUrl(rd.out).hasFragment = ParseUrl(rd.input).hasFragment
             /\ ParseUrl(rd.out).fragment = ParseUrl(rd.input).fragment
             /\ Len(ParseQuery(ParseUrl(rd.out).query)) = Len(ParseQuery(ParseUrl(rd.input).query))
             /\ \A i \in 1..Len(ParseQuery(ParseUrl(rd.input).query)) :
                   /\ ParseQuery(ParseUrl(rd.out).query)[i][1] =
                         ParseQuery(ParseUrl(rd.input).query)[i][1]
                   /\ ParseQuery(ParseUrl(rd.out).query)[i][2] =
                         IF RdQueryNameListed(ParseQuery(ParseUrl(rd.input).query)[i][1])
                         THEN Replacement
                         ELSE ParseQuery(ParseUrl(rd.input).query)[i][2]

\* a url whose upper-case TOKEN parameter is listed as "token" was redacted, next
\* to a parameter that is not listed, with a path and a fragment
C18_Witness ==
    /\ rd.op = "url" /\ rd.pc = "done"
    /\ rd.config.queryParams = {<<"t", "o", "k", "e", "n">>}
    /\ rd.input = <<"http://", "H", "/", "a", "?", "T", "O", "K", "E", "N", "=", "2", "&",
                    "a", "=", "b", "/", "c", "#", "f">>
    /\ rd.out = <<"http://", "h", "/", "a", "?", "T", "O", "K", "E", "N", "=",
                  "%5BREDACTED%5D", "&", "a", "=", "b", "%2F", "c", "#", "f">>

\* a path resolves in a document when each name is a member of the object it is
\* applied to and each index is within the array it is applied to
RECURSIVE Resolves(_, _)
Resolves(doc, segments) ==
    IF segments = <<>> THEN TRUE
    ELSE IF Head(segments).isNumber
         THEN /\ doc.t = "array" /\ Head(segments).index < Len(doc.m)
              /\ Resolves(doc.m[Head(segments).index + 1][2], Tail(segments))
    ELSE IF doc.t = "array"
         THEN /\ IsIndexName(Head(segments).name) /\ ParseInt(Head(segments).name) < Len(doc.m)
              /\ Resolves(doc.m[ParseInt(Head(segments).name) + 1][2], Tail(segments))
    ELSE /\ doc.t = "object" /\ HasOwnMember(doc, Head(segments).name)
         /\ Resolves(doc.m[MemberIndex(doc, Head(segments).name)][2], Tail(segments))

\* the document with the value at a resolving path replaced
RECURSIVE ReplacedAt(_, _, _)
ReplacedAt(doc, segments, value) ==
    IF segments = <<>> THEN value
    ELSE IF Head(segments).isNumber
         THEN [doc EXCEPT !.m[Head(segments).index + 1][2] = ReplacedAt(@, Tail(segments), value)]
    ELSE IF doc.t = "array"
         THEN [doc EXCEPT !.m[ParseInt(Head(segments).name) + 1][2] =
                              ReplacedAt(@, Tail(segments), value)]
    ELSE [doc EXCEPT !.m[MemberIndex(doc, Head(segments).name)][2] =
                         ReplacedAt(@, Tail(segments), value)]

\* C19: after a configured path was applied to a parsed JSON document, the document
\* is the one before with the value at the path replaced by the replacement token
\* when every segment of the path resolves, and the unchanged document when a name
\* is missing, an index is out of range or a step meets a value that is not a
\* container; no error is raised and nothing outside the document is written.
C19_PathRedactsOnlyItsTarget ==
    (rd.op = "jsonpath" /\ rd.pc = "done" /\ IsDefined(ParseJsonPath(rd.origin))) =>
        /\ ~rd.out.threw
        /\ ~rd.out.polluted
        /\ rd.out.doc =
              IF Resolves(rd.input, Get(ParseJsonPath(rd.origin)))
              THEN ReplacedAt(rd.input, Get(ParseJsonPath(rd.origin)), JStr(Replacement))
              ELSE rd.input

\* the headers carry a content-type, under any spelling of the name, whose media
\* type is application/json or ends with +json
CarriesJsonContentType(headers) ==
    /\ IsDefined(headers)
    /\ \E i \in 1..Len(Get(headers)) :
          /\ ToLowerCase(Get(headers)[i].name) = HeaderContentType
          /\ Get(headers)[i].values # <<>>
          /\ \/ ToLowerCase(Trim(Head(Split(Get(headers)[i].values[1], ";")))) = TypeApplicationJson
             \/ EndsWith(ToLowerCase(Trim(Head(Split(Get(headers)[i].values[1], ";")))), SuffixJson)

\* the conditions under which a body may be changed
BodyMayChange(body, redactedHeaders) ==
    /\ rd.config.bodyJsonPaths # <<>>
    /\ Get(body).encoding = "utf8"
    /\ CarriesJsonContentType(redactedHeaders)
    /\ JsonParses(Get(body).value)

\* C20: applyRedaction returns the request body and the response body it was
\* given, each unchanged, unless a JSON path is configured, the body is utf8, the
\* redacted headers of the same side carry a JSON content type and the body parses
\* as JSON.
C20_BodyChangesOnlyForJson ==
    (rd.op = "body" /\ rd.pc = "done" /\ ~rd.threw) =>
        /\ rd.out.requestBody # rd.input.requestBody =>
              BodyMayChange(rd.input.requestBody, rd.out.requestHeaders)
        /\ rd.out.responseBody # rd.input.responseBody =>
              BodyMayChange(rd.input.responseBody, rd.out.responseHeaders)

\* a JSON request body was redacted under a content type with a parameter, next to
\* a response body that was passed through
C20_Witness ==
    /\ rd.op = "body" /\ rd.pc = "done" /\ ~rd.threw
    /\ rd.input.requestBody = Some(CapturedBody(JsonText(SecretDoc, TRUE), "utf8"))
    /\ rd.input.requestHeaders = Some(<<HeaderEntry(HeaderContentTypeCapitalized, FALSE, <<CtJsonCharset>>)>>)
    /\ rd.out.requestBody =
          Some(CapturedBody(JsonText(JObj(<<Member(KeyToken, JStr(Replacement)),
                                            Member(KeyKeep, JStr(<<"y">>))>>), TRUE), "utf8"))
    /\ rd.input.responseHeaders = JsonResponseHeaders
    /\ rd.out.responseBody # rd.input.responseBody

(***************************************************************************)
(* Two requests on one emitter.  mr holds the emitter-wide configuration,  *)
(* the state and span bound to each context, and for each request what was *)
(* done through its own context: the request it was started with, the      *)
(* calls made on its context and the response it was finished with.        *)
(***************************************************************************)
MaxCalls == 2

\* defaultCapture()
DefaultCapture ==
    [requestHeaders |-> TRUE, responseHeaders |-> TRUE, requestBody |-> "text",
     responseBody |-> "text", maxBodyBytes |-> 65536]

\* the resolved configuration of the modelled service: the default capture, the
\* default redacted headers, one query parameter and one JSON path
EmitterConfig ==
    [capture |-> DefaultCapture,
     redaction |-> RedactionConfig(DefaultRedactionHeaders, {<<"t">>},
                                   << <<"$", ".", "token">> >>)]

\* a Partial<CaptureConfig>: the keys it has are defined
CaptureOverride(requestHeaders, requestBody) ==
    [requestHeaders |-> requestHeaders, responseHeaders |-> Undefined,
     requestBody |-> requestBody, responseBody |-> Undefined, maxBodyBytes |-> Undefined]

\* a Partial<RedactionConfig>
RedactionOverride(headers, queryParams, bodyJsonPaths, replacement) ==
    [headers |-> headers, queryParams |-> queryParams, bodyJsonPaths |-> bodyJsonPaths,
     replacement |-> replacement]

\* {...base, ...override} for one key
Spread(base, override) == IF IsDefined(override) THEN Get(override) ELSE base

\* resolveCapture(base, override)
ResolveCapture(base, override) ==
    IF ~IsDefined(override) THEN base
    ELSE [requestHeaders |-> Spread(base.requestHeaders, Get(override).requestHeaders),
          responseHeaders |-> Spread(base.responseHeaders, Get(override).responseHeaders),
          requestBody |-> Spread(base.requestBody, Get(override).requestBody),
          responseBody |-> Spread(base.responseBody, Get(override).responseBody),
          maxBodyBytes |-> Spread(base.maxBodyBytes, Get(override).maxBodyBytes)]

\* normalizeLowercaseList(values): the list is only ever used as a set
NormalizeLowercaseList(values) == {ToLowerCase(Trim(entry)) : entry \in values} \ {EmptyString}

IsNonEmptyString(s) == s # EmptyString

\* normalizeList(values)
NormalizeList(values) ==
    SelectSeq([i \in 1..Len(values) |-> Trim(values[i])], IsNonEmptyString)

\* the merged and normalized redaction configuration of resolveRedaction
MergeRedaction(base, override) ==
    [headers |-> NormalizeLowercaseList(
                     IF IsDefined(override) THEN Spread(base.headers, Get(override).headers)
                     ELSE base.headers),
     queryParams |-> NormalizeLowercaseList(
                     IF IsDefined(override) THEN Spread(base.queryParams, Get(override).queryParams)
                     ELSE base.queryParams),
     bodyJsonPaths |-> NormalizeList(
                     IF IsDefined(override) THEN Spread(base.bodyJsonPaths, Get(override).bodyJsonPaths)
                     ELSE base.bodyJsonPaths),
     replacement |-> IF /\ IsDefined(override) /\ IsDefined(Get(override).replacement)
                        /\ Get(Get(override).replacement) # EmptyString
                     THEN Get(Get(override).replacement)
                     ELSE base.replacement]

\* a resolveRedaction that merges the override into the shared configuration
ResolveRedactionIntoBase(base, override) ==
    [merged |-> MergeRedaction(base, override), base |-> MergeRedaction(base, override)]

\* resolveRedaction(base, override): the merged configuration, and base afterwards
ResolveRedaction(base, override) ==
    [merged |-> MergeRedaction(base, override), base |-> base]

\* sanitizeLogString(value): the model's alphabet has one control character
ControlChar == "\t"
IsNoControlChar(c) == c # ControlChar
SanitizeLogString(value) == SelectSeq(value, IsNoControlChar)

\* sanitizeHeaderValues(headers)
SanitizeHeaderValues(headers) ==
    IF ~IsDefined(headers) THEN Undefined
    ELSE Some([i \in 1..Len(Get(headers)) |->
                 HeaderEntry(SanitizeLogString(Get(headers)[i].name), Get(headers)[i].isArray,
                             [k \in 1..Len(Get(headers)[i].values) |->
                                 SanitizeLogString(Get(headers)[i].values[k])])])

\* the headers in the form resolveHeaderRequestId reads them
HeadersForRequestId(headers) ==
    IF ~IsDefined(headers) THEN Undefined
    ELSE Some([i \in 1..Len(Get(headers)) |->
                 [name |-> Get(headers)[i].name,
                  value |-> [isArray |-> Get(headers)[i].isArray,
                             entries |-> Get(headers)[i].values]]])

\* an insertion-ordered map as a sequence of <<key, value>> pairs: m[key] = value
MapPut(m, key, value) ==
    IF \E i \in 1..Len(m) : m[i][1] = key
    THEN [i \in 1..Len(m) |-> IF m[i][1] = key THEN <<key, value>> ELSE m[i]]
    ELSE Append(m, <<key, value>>)

\* what startRequest binds to the context: the RequestState and the span
BoundState(req) ==
    [request |-> [req EXCEPT !.requestId = NormalizeRequestIdCandidate(@)],
     contextRequestId |-> IF IsDefined(NormalizeRequestIdCandidate(req.requestId))
                          THEN Get(NormalizeRequestIdCandidate(req.requestId))
                          ELSE EmptyString,
     attributes |-> <<>>, events |-> <<>>, userId |-> Undefined, sessionId |-> Undefined,
     error |-> Undefined, captureOverride |-> Undefined, redactionOverride |-> Undefined,
     spanAttributes |-> <<>>, spanEvents |-> <<>>, spanErrors |-> <<>>]

ContextCall(kind, key, value) ==
    [kind |-> kind, key |-> key, value |-> value, id |-> EmptyString, error |-> Undefined,
     capture |-> Undefined, redaction |-> Undefined]

\* state.attributes[key] = value that keeps the value a key already has
StateSetAttributeKeepingFirst(state, key, value) ==
    [state EXCEPT !.attributes = IF \E i \in 1..Len(@) : @[i][1] = key THEN @
                                 ELSE Append(@, <<key, value>>),
                  !.spanAttributes = MapPut(@, key, value)]

\* context.setAttribute(key, value)
StateSetAttribute(state, key, value) ==
    [state EXCEPT !.attributes = MapPut(@, key, value),
                  !.spanAttributes = MapPut(@, key, value)]

\* one call on the context of a bound state: the state afterwards
ApplyContextCall(state, call) ==
    CASE call.kind = "setUserId" ->
            [state EXCEPT !.userId = Some(call.value),
                          !.spanAttributes = IF call.value # "" THEN MapPut(@, "user.id", call.value)
                                             ELSE @]
      [] call.kind = "setSessionId" -> [state EXCEPT !.sessionId = Some(call.value)]
      [] call.kind = "setAttribute" -> StateSetAttribute(state, call.key, call.value)
      [] call.kind = "addEvent" ->
            [state EXCEPT !.events = Append(@, call.value), !.spanEvents = Append(@, call.value)]
      [] call.kind = "setError" ->
            [state EXCEPT !.error = call.error, !.spanErrors = Append(@, call.error)]
      [] call.kind = "setContextRoute" -> [state EXCEPT !.request.route = Some(call.value)]
      [] call.kind = "setContextRequestId" ->
            [state EXCEPT !.request.requestId = Some(call.id), !.contextRequestId = call.id]
      [] call.kind = "setCaptureOverride" ->
            IF IsDefined(call.capture) THEN [state EXCEPT !.captureOverride = call.capture]
            ELSE state
      [] call.kind = "setRedactionOverride" ->
            IF IsDefined(call.redaction) THEN [state EXCEPT !.redactionOverride = call.redaction]
            ELSE state

RECURSIVE ApplyContextCalls(_, _)
ApplyContextCalls(state, calls) ==
    IF calls = <<>> THEN state
    ELSE ApplyContextCalls(ApplyContextCall(state, Head(calls)), Tail(calls))

\* const log of endRequest, under the resolved capture policy
RequestLogOf(state, requestId, res, err, capture) ==
    [requestId |-> requestId, serviceName |-> ConfigServiceName,
     method |-> state.request.method, url |-> SanitizeLogString(state.request.url),
     route |-> state.request.route, statusCode |-> res.statusCode,
     requestHeaders |-> IF capture.requestHeaders THEN SanitizeHeaderValues(state.request.headers)
                        ELSE Undefined,
     responseHeaders |-> IF capture.responseHeaders THEN SanitizeHeaderValues(res.headers)
                         ELSE Undefined,
     requestBody |-> IF capture.requestBody = "none" THEN Undefined ELSE state.request.body,
     responseBody |-> IF capture.responseBody = "none" THEN Undefined ELSE res.body,
     userId |-> state.userId, sessionId |-> state.sessionId,
     error |-> BuildError(Coalesce(err, state.error)),
     attributes |-> IF state.attributes # <<>> THEN Some(state.attributes) ELSE Undefined]

\* an endRequest that reads the identifier from the headers it has redacted
FinishRequestFromRedactedHeaders(config, state, res, err, generated) ==
    LET redaction == ResolveRedaction(config.redaction, state.redactionOverride)
        r == ResolveFinalRequestId(ConfigRequestIdHeader,
                                   OrElse(state.request.requestId, state.contextRequestId),
                                   HeadersForRequestId(OptRedactHeaders(res.headers,
                                                                        redaction.merged)),
                                   generated)
        redacted == ApplyRedactionWith(redaction.merged,
                                       RequestLogOf(state, r.id, res, err,
                                                    ResolveCapture(config.capture,
                                                                   state.captureOverride)))
    IN [log |-> IF redacted.threw THEN Undefined ELSE Some(redacted.log),
        state |-> [state EXCEPT !.request.requestId = Some(r.id), !.contextRequestId = r.id],
        config |-> [config EXCEPT !.redaction = redaction.base],
        generated |-> r.generated]

\* endRequest(config, ctx, res, err) for a bound state: the log it returns (none
\* when applyRedaction throws), the state and the shared configuration afterwards
FinishRequest(config, state, res, err, generated) ==
    Only({Only({[log |-> IF redacted.threw THEN Undefined ELSE Some(redacted.log),
                 state |-> [state EXCEPT !.request.requestId = Some(r.id),
                                         !.contextRequestId = r.id],
                 config |-> [config EXCEPT !.redaction = redaction.base],
                 generated |-> r.generated] :
                    redacted \in {Only({ApplyRedactionWith(redaction.merged, log) :
                                            log \in {RequestLogOf(
                                                         state, r.id, res, err,
                                                         ResolveCapture(config.capture,
                                                                        state.captureOverride))}})}}) :
             r \in {ResolveFinalRequestId(ConfigRequestIdHeader,
                                          OrElse(state.request.requestId,
                                                 state.contextRequestId),
                                          HeadersForRequestId(res.headers), generated)},
             redaction \in {ResolveRedaction(config.redaction, state.redactionOverride)}})

MrCtxs == {1, 2}

\* the requests the adapters hand to startRequest: the first with an identifier and
\* a route, the second without
MrRequestA ==
    [method |-> "GET",
     url |-> <<"http://", "h", "/", "a", "?", "t", "=", "1", "&", "q", "=", "2">>,
     route |-> Some("/a"), requestId |-> Some(<<" ", "i", "d", "1">>),
     headers |-> Some(<<HeaderEntry(HeaderAuthorization, FALSE,
                                    <<AuthValue(<<"B", "e", "a", "r", "e", "r">>,
                                                <<"1", "2", "3">>).text>>),
                        HeaderEntry(HeaderContentType, FALSE, <<CtJson>>)>>),
     body |-> Some(CapturedBody(JsonText(SecretDoc, TRUE), "utf8"))]
MrRequestB ==
    [method |-> "POST", url |-> <<"http://", "h", "/", "b", ControlChar, "?", "T", "=", "3">>,
     route |-> Undefined, requestId |-> Undefined,
     headers |-> Some(<<HeaderEntry(HeaderCookie, FALSE, <<<<"a", "=", "1">>>>),
                        HeaderEntry(HeaderContentType, FALSE, <<CtJson>>)>>),
     body |-> Some(CapturedBody(JsonText(SecretDoc, FALSE), "utf8"))]
MrRequests(c) == IF c = 1 THEN {MrRequestA} ELSE {MrRequestB}

MrResponseA ==
    [statusCode |-> Some(200),
     headers |-> Some(<<HeaderEntry(HeaderSetCookie, FALSE, <<<<"s", "=", "1">>>>)>>),
     body |-> Undefined]
MrResponseB ==
    [statusCode |-> Some(500),
     headers |-> Some(<<HeaderEntry(ConfigRequestIdHeader, FALSE, <<<<"i", "d", "7">>>>)>>),
     body |-> Some(CapturedBody(OtherText, "utf8"))]

MrErrorA == Some([isError |-> TRUE, message |-> "boom", name |-> "TypeError"])
MrErrorB == Some([isError |-> FALSE, message |-> "failed", name |-> ""])

\* how a request is finished: the response and the error given to endRequest
MrFinishes(c) ==
    IF c = 1 THEN {[res |-> MrResponseA, err |-> Undefined], [res |-> MrResponseB, err |-> MrErrorB]}
    ELSE {[res |-> MrResponseA, err |-> Undefined]}

\* the values each context is called with: those of context 2 differ from those of
\* context 1
MrUserIds(c) == IF c = 1 THEN {"u1", "u2"} ELSE {"u3"}
MrSessionIds(c) == IF c = 1 THEN {"s1"} ELSE {}
MrAttributes(c) == IF c = 1 THEN {<<"k1", "v1">>, <<"k1", "v2">>} ELSE {<<"k2", "v3">>}
MrEventNames(c) == IF c = 1 THEN {"e1", "e2"} ELSE {}
MrErrors(c) == IF c = 1 THEN {MrErrorA} ELSE {}
MrRoutes(c) == IF c = 1 THEN {} ELSE {"/r"}
MrRequestIds(c) == IF c = 1 THEN {} ELSE {<<"i", "d", "9">>}

\* the overrides given to setCaptureOverride and setRedactionOverride: those of
\* context 2 are an undefined one and one that names a header in upper case
MrCaptureOverrides(c) ==
    IF c = 1
    THEN {Some(CaptureOverride(Some(FALSE), Undefined)),
          Some(CaptureOverride(Undefined, Some("none")))}
    ELSE {Undefined}
MrRedactionOverrides(c) ==
    IF c = 1
    THEN {Some(RedactionOverride(
                   Some({<<" ", "C", "o", "n", "t", "e", "n", "t", "-", "T", "y", "p", "e">>}),
                   Undefined, Undefined, Undefined)),
          Some(RedactionOverride(Undefined, Some({<<"Q">>}), Undefined, Some(EmptyString))),
          Some(RedactionOverride(Undefined, Undefined,
                                 Some(<< <<" ", "k", "e", "e", "p">>, <<" ">> >>),
                                 Some(<<"***">>)))}
    ELSE {Some(RedactionOverride(Some({<<"C", "O", "O", "K", "I", "E">>}), Undefined, Undefined,
                                 Undefined))}

MrIdle == mr = <<>>

MrFresh ==
    [config |-> EmitterConfig,
     st |-> [c \in MrCtxs |-> Undefined],
     req |-> [c \in MrCtxs |-> Undefined],
     calls |-> [c \in MrCtxs |-> <<>>],
     fin |-> [c \in MrCtxs |-> Undefined],
     log |-> [c \in MrCtxs |-> Undefined],
     generated |-> 0]

MrUnchanged == UNCHANGED <<lbVars, coreVars, ad, fc, rd, fn>>

MrInit ==
    /\ BufIdle /\ CoreIdle /\ AdIdle
    /\ fc = <<>> /\ rd = <<>> /\ fn = <<>>
    /\ mr = MrFresh

\* getContextState(ctx) that finds the state of the first request for every context
StateOfFirstRequest(m, c) == m.st[1]

\* getContextState(ctx): the state bound to the context
StateOf(m, c) == m.st[c]

MrActive(c) == IsDefined(mr.req[c]) /\ ~IsDefined(mr.fin[c])

\* where the request of context c stands
MrStatus(c) ==
    IF ~IsDefined(mr.req[c]) THEN "idle" ELSE IF IsDefined(mr.fin[c]) THEN "finished" ELSE "active"
MrCallsMade == Len(mr.calls[1]) + Len(mr.calls[2])

\* startRequest(req) returns context c
MrStartRequest(c) ==
    /\ ~IsDefined(mr.req[c])
    /\ \E req \in MrRequests(c) :
          mr' = [mr EXCEPT !.st[c] = Some(BoundState(req)), !.req[c] = Some(req)]
    /\ MrUnchanged

\* a call on context c
MrCall(c, call) ==
    /\ MrActive(c)
    /\ MrCallsMade < MaxCalls
    /\ IsDefined(StateOf(mr, c))
    /\ mr' = [mr EXCEPT !.st[c] = Some(ApplyContextCall(Get(StateOf(mr, c)), call)),
                        !.calls[c] = Append(@, call)]
    /\ MrUnchanged

MrSetUserId(c) == \E id \in MrUserIds(c) : MrCall(c, ContextCall("setUserId", "", id))
MrSetSessionId(c) == \E id \in MrSessionIds(c) : MrCall(c, ContextCall("setSessionId", "", id))
MrSetAttribute(c) ==
    \E kv \in MrAttributes(c) : MrCall(c, ContextCall("setAttribute", kv[1], kv[2]))
MrAddEvent(c) == \E name \in MrEventNames(c) : MrCall(c, ContextCall("addEvent", "", name))
MrSetError(c) ==
    \E err \in MrErrors(c) : MrCall(c, [ContextCall("setError", "", "") EXCEPT !.error = err])
MrSetContextRoute(c) ==
    \E route \in MrRoutes(c) : MrCall(c, ContextCall("setContextRoute", "", route))
MrSetContextRequestId(c) ==
    \E id \in MrRequestIds(c) :
        MrCall(c, [ContextCall("setContextRequestId", "", "") EXCEPT !.id = id])
MrSetCaptureOverride(c) ==
    \E o \in MrCaptureOverrides(c) :
        MrCall(c, [ContextCall("setCaptureOverride", "", "") EXCEPT !.capture = o])
MrSetRedactionOverride(c) ==
    \E o \in MrRedactionOverrides(c) :
        MrCall(c, [ContextCall("setRedactionOverride", "", "") EXCEPT !.redaction = o])

\* endRequest(ctx, res, err) on context c
MrEndRequest(c) ==
    /\ MrActive(c)
    /\ IsDefined(StateOf(mr, c))
    /\ \E f \in MrFinishes(c) :
       \E r \in {FinishRequest(mr.config, Get(StateOf(mr, c)), f.res, f.err,
                               GenerateRequestId(mr.generated + 1))} :
          mr' = [mr EXCEPT !.config = r.config, !.st[c] = Some(r.state),
                           !.fin[c] = Some([res |-> f.res, err |-> f.err,
                                            generated |-> GenerateRequestId(mr.generated + 1),
                                            other |-> MrStatus(3 - c)]),
                           !.log[c] = r.log,
                           !.generated = IF r.generated THEN @ + 1 ELSE @]
    /\ MrUnchanged

MrNext ==
    \E c \in MrCtxs :
        \/ MrStartRequest(c)
        \/ MrSetUserId(c)
        \/ MrSetSessionId(c)
        \/ MrSetAttribute(c)
        \/ MrAddEvent(c)
        \/ MrSetError(c)
        \/ MrSetContextRoute(c)
        \/ MrSetContextRequestId(c)
        \/ MrEndRequest(c)

SpecRequests == MrInit /\ [][MrNext]_vars

MrOverridesNext ==
    \E c \in MrCtxs :
        \/ MrStartRequest(c)
        \/ MrSetCaptureOverride(c)
        \/ MrSetRedactionOverride(c)
        \/ MrEndRequest(c)

SpecOverrides == MrInit /\ [][MrOverridesNext]_vars

\* the log of a request that runs alone on a fresh emitter: started with req, called
\* with calls, finished with fin
LogOfRequestAlone(req, calls, fin) ==
    Only({FinishRequest(EmitterConfig, state, fin.res, fin.err, fin.generated).log :
             state \in {ApplyContextCalls(BoundState(req), calls)}})

\* the calls of one kind among the calls made on a context, in call order
RECURSIVE CallsOfKind(_, _)
CallsOfKind(calls, kind) ==
    IF calls = <<>> THEN <<>>
    ELSE IF Head(calls).kind = kind THEN <<Head(calls)>> \o CallsOfKind(Tail(calls), kind)
    ELSE CallsOfKind(Tail(calls), kind)

LastOf(s) == s[Len(s)]
ValuesOf(calls) == [i \in 1..Len(calls) |-> calls[i].value]

\* the setAttribute calls for one key, in call order
RECURSIVE CallsForKey(_, _)
CallsForKey(calls, key) ==
    IF calls = <<>> THEN <<>>
    ELSE IF Head(calls).kind = "setAttribute" /\ Head(calls).key = key
         THEN <<Head(calls)>> \o CallsForKey(Tail(calls), key)
    ELSE CallsForKey(Tail(calls), key)

\* C13: the log of a finished request holds, for each attribute key, the value of
\* the last setAttribute call for that key and no other key; its userId and
\* sessionId are the last values set; its error is the one given to endRequest, or
\* else the last one set; and the events of the request are, in the state and on
\* the span, the names given to addEvent in call order.
C13_LogReflectsCallsInOrder ==
    \A c \in MrCtxs :
        /\ IsDefined(mr.st[c]) =>
              /\ Get(mr.st[c]).events = ValuesOf(CallsOfKind(mr.calls[c], "addEvent"))
              /\ Get(mr.st[c]).spanEvents = ValuesOf(CallsOfKind(mr.calls[c], "addEvent"))
        /\ IsDefined(mr.log[c]) =>
              /\ \A key \in {"k1", "k2"} :
                    IF CallsForKey(mr.calls[c], key) = <<>>
                    THEN \/ ~IsDefined(Get(mr.log[c]).attributes)
                         \/ \A i \in 1..Len(Get(Get(mr.log[c]).attributes)) :
                               Get(Get(mr.log[c]).attributes)[i][1] # key
                    ELSE /\ IsDefined(Get(mr.log[c]).attributes)
                         /\ \E i \in 1..Len(Get(Get(mr.log[c]).attributes)) :
                               Get(Get(mr.log[c]).attributes)[i] =
                                   <<key, LastOf(CallsForKey(mr.calls[c], key)).value>>
                         /\ \A i \in 1..Len(Get(Get(mr.log[c]).attributes)) :
                               Get(Get(mr.log[c]).attributes)[i][1] = key =>
                                   Get(Get(mr.log[c]).attributes)[i][2] =
                                       LastOf(CallsForKey(mr.calls[c], key)).value
              /\ Get(mr.log[c]).userId =
                    IF CallsOfKind(mr.calls[c], "setUserId") = <<>> THEN Undefined
                    ELSE Some(LastOf(CallsOfKind(mr.calls[c], "setUserId")).value)
              /\ Get(mr.log[c]).sessionId =
                    IF CallsOfKind(mr.calls[c], "setSessionId") = <<>> THEN Undefined
                    ELSE Some(LastOf(CallsOfKind(mr.calls[c], "setSessionId")).value)
              /\ Get(mr.log[c]).error =
                    IF IsDefined(Get(mr.fin[c]).err) THEN BuildError(Get(mr.fin[c]).err)
                    ELSE IF CallsOfKind(mr.calls[c], "setError") = <<>> THEN Undefined
                    ELSE BuildError(LastOf(CallsOfKind(mr.calls[c], "setError")).error)

\* a request was finished after two setAttribute calls for the same key
C13_Witness ==
    /\ IsDefined(mr.log[1])
    /\ mr.calls[1] = <<ContextCall("setAttribute", "k1", "v1"),
                       ContextCall("setAttribute", "k1", "v2")>>
    /\ Get(mr.log[1]).attributes = Some(<< <<"k1", "v2">> >>)

\* C14: the log of a finished request is the log the same request gets when it
\* runs alone on the emitter, whatever was done through the other context in the
\* meantime, and the state bound to a context is the result of the calls made on
\* that context alone.
C14_RequestsDoNotShareState ==
    \A c \in MrCtxs :
        /\ (IsDefined(mr.req[c]) /\ ~IsDefined(mr.fin[c])) =>
              mr.st[c] = Some(ApplyContextCalls(BoundState(Get(mr.req[c])), mr.calls[c]))
        /\ IsDefined(mr.fin[c]) =>
              mr.log[c] = LogOfRequestAlone(Get(mr.req[c]), mr.calls[c], Get(mr.fin[c]))

\* both requests were finished, the first while the second was under way, each
\* after a call on its own context, and their logs carry their own user ids
C14_Witness ==
    /\ IsDefined(mr.log[1]) /\ IsDefined(mr.log[2])
    /\ Get(mr.fin[1]).other = "active"
    /\ mr.calls[1] = <<ContextCall("setUserId", "", "u1")>>
    /\ mr.calls[2] = <<ContextCall("setUserId", "", "u3")>>
    /\ Get(mr.log[1]).userId = Some("u1")
    /\ Get(mr.log[2]).userId = Some("u3")

\* the last override given to a context by calls of one kind, undefined ones
\* aside: none when there was no such call
RECURSIVE CaptureOverrideOf(_)
CaptureOverrideOf(calls) ==
    IF calls = <<>> THEN Undefined
    ELSE IF LastOf(calls).kind = "setCaptureOverride" /\ IsDefined(LastOf(calls).capture)
         THEN LastOf(calls).capture
    ELSE CaptureOverrideOf(SubSeq(calls, 1, Len(calls) - 1))

RECURSIVE RedactionOverrideOf(_)
RedactionOverrideOf(calls) ==
    IF calls = <<>> THEN Undefined
    ELSE IF LastOf(calls).kind = "setRedactionOverride" /\ IsDefined(LastOf(calls).redaction)
         THEN LastOf(calls).redaction
    ELSE RedactionOverrideOf(SubSeq(calls, 1, Len(calls) - 1))

\* the log of a finished request under a capture and a redaction policy
LogUnderPolicy(state, fin, capture, redaction) ==
    Only({IF redacted.threw THEN Undefined ELSE Some(redacted.log) :
             redacted \in {Only({ApplyRedactionWith(redaction, log) :
                                    log \in {RequestLogOf(state, Get(state.request.requestId),
                                                          fin.res, fin.err, capture)}})}})

\* C15: the emitter's resolved configuration is the same after every endRequest,
\* whatever overrides the finished requests carried; the log of a finished
\* request is built under the emitter-wide capture and redaction policy with the
\* request's own last overrides merged over it, and under the emitter-wide policy
\* itself when no override was given through its context.
C15_OverridesStayWithTheirRequest ==
    /\ mr.config = EmitterConfig
    /\ \A c \in MrCtxs :
          IsDefined(mr.fin[c]) =>
             /\ mr.log[c] = LogUnderPolicy(
                                Get(mr.st[c]), Get(mr.fin[c]),
                                ResolveCapture(EmitterConfig.capture,
                                               CaptureOverrideOf(mr.calls[c])),
                                MergeRedaction(EmitterConfig.redaction,
                                               RedactionOverrideOf(mr.calls[c])))
             /\ (\A i \in 1..Len(mr.calls[c]) :
                    ~IsDefined(mr.calls[c][i].capture) /\ ~IsDefined(mr.calls[c][i].redaction))
                   => mr.log[c] = LogUnderPolicy(Get(mr.st[c]), Get(mr.fin[c]),
                                                 EmitterConfig.capture, EmitterConfig.redaction)

\* the first request was finished with a capture and a redaction override before
\* the second was started; the second, without overrides, was logged with its
\* headers and with the emitter-wide replacement in its url
C15_Witness ==
    /\ IsDefined(mr.log[1]) /\ IsDefined(mr.log[2])
    /\ Get(mr.fin[1]).other = "idle"
    /\ mr.calls[2] = <<>>
    /\ CaptureOverrideOf(mr.calls[1]) = Some(CaptureOverride(Some(FALSE), Undefined))
    /\ IsDefined(RedactionOverrideOf(mr.calls[1]))
    /\ Get(RedactionOverrideOf(mr.calls[1])).replacement = Some(<<"***">>)
    /\ ~IsDefined(Get(mr.log[1]).requestHeaders)
    /\ \E i \in 1..Len(Get(mr.log[1]).url) : Get(mr.log[1]).url[i] = "***"
    /\ IsDefined(Get(mr.log[2]).requestHeaders)
    /\ \A i \in 1..Len(Get(mr.log[2]).url) : Get(mr.log[2]).url[i] # "***"
    /\ \E i \in 1..Len(Get(mr.log[2]).url) : Get(mr.log[2]).url[i] = "%5BREDACTED%5D"
(***************************************************************************)
(* The client address written to the span (attributes.ts)                  *)
(***************************************************************************)
\* the first defined value of a sequence of optional values
RECURSIVE FirstDefined(_)
FirstDefined(options) ==
    IF options = <<>> THEN Undefined
    ELSE IF IsDefined(Head(options)) THEN Head(options)
    ELSE FirstDefined(Tail(options))

\* an optional string that is undefined or empty is falsy
IsFalsyString(o) == ~IsDefined(o) \/ Get(o) = EmptyString

\* (trimmed.match(/:/g) ?? []).length
ColonCount(s) == Cardinality({i \in 1..Len(s) : s[i] = ":"})

\* the tail of normalizeAddress, from the test for quotes on: the argument is the
\* trimmed value
UnwrapAddress(trimmed) ==
    Only({IF bare = EmptyString THEN Undefined
          ELSE IF StartsWith(bare, <<"[">>) /\ IndexOf(bare, "]") # -1
               THEN Some(Slice(bare, 1, IndexOf(bare, "]")))
          ELSE IF ColonCount(bare) = 1
               THEN (IF Split(bare, ":")[1] = EmptyString THEN Undefined
                     ELSE Some(Split(bare, ":")[1]))
          ELSE Some(bare) :
             bare \in {IF StartsWith(trimmed, <<"\"">>) /\ EndsWith(trimmed, <<"\"">>)
                          /\ Len(trimmed) > 1
                       THEN Trim(Slice(trimmed, 1, Len(trimmed) - 1))
                       ELSE trimmed}})

\* normalizeAddress(value, redactionReplacement): the replacement is optional
NormalizeAddress(value, redactionReplacement) ==
    IF value = EmptyString \/ Trim(value) = EmptyString THEN Undefined
    ELSE IF ~IsFalsyString(redactionReplacement) /\ Trim(value) = Get(redactionReplacement)
         THEN Undefined
    ELSE UnwrapAddress(Trim(value))

LiteralUnknown == <<"u", "n", "k", "n", "o", "w", "n">>

\* normalizeKnownAddress(value, redactionReplacement)
NormalizeKnownAddress(value, redactionReplacement) ==
    Only({IF IsFalsyString(normalized) THEN Undefined
          ELSE IF ToLowerCase(Get(normalized)) = LiteralUnknown THEN Undefined
          ELSE normalized :
             normalized \in {NormalizeAddress(value, redactionReplacement)}})

\* remoteAddrHost(value)
RemoteAddrHost(value) == NormalizeAddress(value, Undefined)

\* headerValues(headers, name): the values of every header of that name, in order
RECURSIVE HeaderValues(_, _)
HeaderValues(headers, name) ==
    IF headers = <<>> THEN <<>>
    ELSE (IF ToLowerCase(Head(headers).name) = ToLowerCase(name) THEN Head(headers).values
          ELSE <<>>) \o HeaderValues(Tail(headers), name)

KeyFor == <<"f", "o", "r">>

\* the body of the innermost loop of forwardedClientAddress, for one parameter
ForwardedParam(param, redactionReplacement) ==
    Only({IF parts[1] = EmptyString THEN Undefined
          ELSE IF ToLowerCase(Trim(parts[1])) # KeyFor THEN Undefined
          ELSE NormalizeKnownAddress(Trim(Join(Tail(parts), <<"=">>)), redactionReplacement) :
             parts \in {Split(param, "=")}})

\* forwardedClientAddress(values, redactionReplacement)
ForwardedClientAddress(values, redactionReplacement) ==
    FirstDefined(
        [k \in 1..Len(values) |->
            IF values[k] = EmptyString THEN Undefined
            ELSE Only({FirstDefined(
                          [i \in 1..Len(entries) |->
                              Only({FirstDefined(
                                        [j \in 1..Len(params) |->
                                            ForwardedParam(params[j], redactionReplacement)]) :
                                       params \in {Split(entries[i], ";")}})]) :
                         entries \in {Split(values[k], ",")}})])

\* xForwardedForClientAddress(values, redactionReplacement)
XForwardedForClientAddress(values, redactionReplacement) ==
    FirstDefined(
        [k \in 1..Len(values) |->
            IF values[k] = EmptyString THEN Undefined
            ELSE Only({FirstDefined(
                          [i \in 1..Len(entries) |->
                              NormalizeKnownAddress(entries[i], redactionReplacement)]) :
                         entries \in {Split(values[k], ",")}})])

\* xRealIpClientAddress(values, redactionReplacement)
XRealIpClientAddress(values, redactionReplacement) ==
    FirstDefined(
        [k \in 1..Len(values) |->
            IF values[k] = EmptyString THEN Undefined
            ELSE NormalizeKnownAddress(values[k], redactionReplacement)])

HeaderForwarded == <<"f", "o", "r", "w", "a", "r", "d", "e", "d">>
HeaderXForwardedFor == <<"x", "-", "f", "o", "r", "w", "a", "r", "d", "e", "d", "-", "f", "o", "r">>
HeaderXRealIp == <<"x", "-", "r", "e", "a", "l", "-", "i", "p">>

\* clientAddressForRequest(headers, remoteAddress, redactionReplacement)
ClientAddressForRequest(headers, remoteAddress, redactionReplacement) ==
    Only({IF ~IsFalsyString(forwarded) THEN forwarded
          ELSE Only({IF ~IsFalsyString(xForwarded) THEN xForwarded
                     ELSE Only({IF ~IsFalsyString(xRealIp) THEN xRealIp
                                ELSE IF IsFalsyString(remoteAddress) THEN Undefined
                                ELSE RemoteAddrHost(Get(remoteAddress)) :
                                   xRealIp \in {XRealIpClientAddress(
                                                   HeaderValues(headers, HeaderXRealIp),
                                                   redactionReplacement)}}) :
                        xForwarded \in {XForwardedForClientAddress(
                                           HeaderValues(headers, HeaderXForwardedFor),
                                           redactionReplacement)}}) :
             forwarded \in {ForwardedClientAddress(HeaderValues(headers, HeaderForwarded),
                                                   redactionReplacement)}})

\* the client.address attribute endRequest writes to the span: the headers are
\* redacted first, and a falsy address is not written
SpanClientAddress(request, redaction) ==
    Only({IF IsFalsyString(address) THEN Undefined ELSE address :
             address \in {ClientAddressForRequest(RedactHeaders(request.headers, redaction),
                                                  request.remoteAddress,
                                                  Some(redaction.replacement))}})
\* the inputs of the client address: a request with forwarding headers and a remote
\* address, and the redaction under which endRequest runs
FnIdle == fn = <<>>
FnUnchanged == UNCHANGED <<lbVars, coreVars, ad, fc, mr, rd>>

AddrUnknown == <<"U", "n", "k", "n", "o", "w", "n">>
ForwardedValues ==
    {<<"f", "o", "r", "=", "1">>,
     <<"f", "o", "r", "=">> \o LiteralUnknown \o <<";", "b", "y", "=", "7">>,
     <<"F", "o", "r", "=", "\"", "[", "a", ":", ":", "1", "]", ":", "8", "\"", ";", "p", "=", "h",
       ",", " ", "f", "o", "r", "=", "3">>,
     <<"b", "y", "=", "7">>}
XForwardedForValues ==
    {<<<<"2", ":", "8", ",", " ", "4">>>>, <<LiteralUnknown \o <<",", " ", "4">>>>, <<<<" ">>>>,
     <<AddrUnknown, <<"4">>>>}
XRealIpValues == {<<"3">>, AddrUnknown, <<"[", "a", ":", ":", "1", "]">>}
RemoteAddresses == {Undefined, Some(<<"9", ":", "8">>), Some(LiteralUnknown), Some(<<"[", "]">>)}

\* one header or none: a value with several entries is an array
OptHeader(name, valueLists) ==
    {<<>>} \cup {<<HeaderEntry(name, Len(v) > 1, v)>> : v \in valueLists}

CaHeaders ==
    {f \o x \o r :
        f \in OptHeader(<<"F">> \o Tail(HeaderForwarded), {<<v>> : v \in ForwardedValues}),
        x \in OptHeader(HeaderXForwardedFor, XForwardedForValues),
        r \in OptHeader(HeaderXRealIp, {<<v>> : v \in XRealIpValues})}

\* the replacement the service is configured with: the default, one with a blank
\* before it and one with a comma in it
CaReplacements ==
    {<<"[", "REDACTED", "]">>, <<" ", "*">>, <<"x", ",", "y">>}
CaRedactLists ==
    {{}, {HeaderXForwardedFor}, {<<"X">> \o Tail(HeaderXRealIp)},
     {HeaderForwarded, HeaderXForwardedFor, HeaderXRealIp}}

CaInputs ==
    {[op |-> "clientAddress", pc |-> "input",
      request |-> [headers |-> h, remoteAddress |-> a],
      redaction |-> [RedactionConfig(l, {}, <<>>) EXCEPT !.replacement = p],
      out |-> Undefined] :
        h \in CaHeaders, a \in RemoteAddresses, l \in CaRedactLists, p \in CaReplacements}

CaInit ==
    /\ BufIdle /\ CoreIdle /\ AdIdle
    /\ fc = <<>> /\ mr = <<>> /\ rd = <<>>
    /\ fn \in CaInputs

\* endRequest writes the span attributes of the request
CaSetRequestAttributes ==
    /\ fn.op = "clientAddress" /\ fn.pc = "input"
    /\ fn' = [fn EXCEPT !.pc = "done", !.out = SpanClientAddress(fn.request, fn.redaction)]
    /\ FnUnchanged

CaNext == CaSetRequestAttributes

SpecClientAddress == CaInit /\ [][CaNext]_vars
\* the texts of the for= parameters of the Forwarded values, in order
ForParamsOf(values) ==
    ConcatAll([k \in 1..Len(values) |->
        ConcatAll([i \in 1..Len(Split(values[k], ",")) |->
            ConcatAll([j \in 1..Len(Split(Split(values[k], ",")[i], ";")) |->
                Only({IF ToLowerCase(Trim(parts[1])) = KeyFor
                      THEN <<Join(Tail(parts), <<"=">>)>> ELSE <<>> :
                         parts \in {Split(Split(Split(values[k], ",")[i], ";")[j], "=")}})])])])

\* the candidates for the client address, in the order of precedence: the for=
\* parameters of Forwarded, the first entry of X-Forwarded-For, X-Real-Ip, the
\* remote address
CandidatesOf(headers, remoteAddress) ==
    ForParamsOf(HeaderValues(headers, HeaderForwarded))
    \o (IF HeaderValues(headers, HeaderXForwardedFor) = <<>> THEN <<>>
        ELSE <<Split(HeaderValues(headers, HeaderXForwardedFor)[1], ",")[1]>>)
    \o HeaderValues(headers, HeaderXRealIp)
    \o (IF IsDefined(remoteAddress) THEN <<Get(remoteAddress)>> ELSE <<>>)

\* a candidate is rejected when it is blank, is the replacement, or reads 'unknown'
IsRejected(candidate, replacement) ==
    \/ Trim(candidate) = EmptyString
    \/ Trim(candidate) = replacement
    \/ IsFalsyString(UnwrapAddress(Trim(candidate)))
    \/ ToLowerCase(Get(UnwrapAddress(Trim(candidate)))) = LiteralUnknown

RECURSIVE FirstAccepted(_, _)
FirstAccepted(candidates, replacement) ==
    IF candidates = <<>> THEN Undefined
    ELSE IF ~IsRejected(Head(candidates), replacement)
         THEN UnwrapAddress(Trim(Head(candidates)))
    ELSE FirstAccepted(Tail(candidates), replacement)

\* the headers that are not in the effective redaction list
RECURSIVE Unlisted(_, _)
Unlisted(headers, list) ==
    IF headers = <<>> THEN <<>>
    ELSE (IF ToLowerCase(Head(headers).name) \in {ToLowerCase(n) : n \in list} THEN <<>>
          ELSE <<Head(headers)>>) \o Unlisted(Tail(headers), list)

\* the address written is the first accepted candidate
CaIsFirstAccepted ==
    fn.out = FirstAccepted(CandidatesOf(RedactHeaders(fn.request.headers, fn.redaction),
                                        fn.request.remoteAddress),
                           fn.redaction.replacement)

\* the address written is the one written when the listed headers are left out
CaListedHeadersSupplyNothing ==
    fn.out = SpanClientAddress([fn.request EXCEPT
                                   !.headers = Unlisted(@, fn.redaction.headers)],
                               fn.redaction)

\* C21: the client address written to the span is the first accepted candidate
\* among the for= parameter of Forwarded, the first entry of X-Forwarded-For,
\* X-Real-Ip and the remote address, a candidate equal to the replacement or to
\* 'unknown' being rejected; and a forwarding header in the redaction list never
\* supplies it.
C21_ClientAddressIsFirstAccepted ==
    (fn.op = "clientAddress" /\ fn.pc = "done") =>
        /\ CaIsFirstAccepted
        /\ CaListedHeadersSupplyNothing

(***************************************************************************)
(* Configuration resolution (core/config.ts).  A raw configuration is a    *)
(* record of optional fields; normalizeConfig either returns the resolved  *)
(* configuration or throws an XrayConfigError, whose code is kept.  The    *)
(* environment is the pair of variables the resolution reads.              *)
(***************************************************************************)

\* the outcome of a call that may throw: the value returned, or the code of
\* the XrayConfigError thrown
Returned(v) == [threw |-> FALSE, code |-> "", value |-> <<v>>]
Thrown(code) == [threw |-> TRUE, code |-> code, value |-> <<>>]

\* a JavaScript number: finite, NaN, or an infinity of either sign
Finite(n) == [kind |-> "finite", n |-> n]
NaN == [kind |-> "nan", n |-> 0]
PositiveInfinity == [kind |-> "infinity", n |-> 1]
NegativeInfinity == [kind |-> "infinity", n |-> -1]

\* Number.isFinite(x)
NumberIsFinite(x) == x.kind = "finite"

\* x < 0: false for NaN
LessThanZero(x) == x.kind # "nan" /\ x.n < 0

\* process.env as far as the resolution reads it
Environment(endpointUrl, spanProcessor) ==
    [STAINLESS_XRAY_ENDPOINT_URL |-> endpointUrl,
     STAINLESS_XRAY_SPAN_PROCESSOR |-> spanProcessor]

\* a Partial<CaptureConfig> of a raw configuration
CapturePartial(requestBody, responseBody, maxBodyBytes) ==
    [requestHeaders |-> Undefined, responseHeaders |-> Undefined,
     requestBody |-> requestBody, responseBody |-> responseBody,
     maxBodyBytes |-> maxBodyBytes]

\* a Partial<ExporterConfig>; headers is a Record<string, string> in insertion
\* order
ExporterPartial(endpointUrl, headers, timeoutMs, spanProcessor) ==
    [endpointUrl |-> endpointUrl, headers |-> headers, timeoutMs |-> timeoutMs,
     spanProcessor |-> spanProcessor]

HeaderPair(name, value) == [name |-> name, value |-> value]

\* an XrayConfig
XrayConfig(serviceName, endpointUrl, exporter, capture, redaction, requestId) ==
    [serviceName |-> serviceName, endpointUrl |-> endpointUrl, exporter |-> exporter,
     capture |-> capture, redaction |-> redaction, requestId |-> requestId]

BodyModes == {"none", "text", "base64"}

\* normalizeCapture(cfg) without its check of maxBodyBytes
NormalizeCaptureAnySize(cfg) ==
    LET part == IF IsDefined(cfg) THEN Get(cfg) ELSE CapturePartial(Undefined, Undefined, Undefined)
        capture ==
            [requestHeaders |-> Spread(DefaultCapture.requestHeaders, part.requestHeaders),
             responseHeaders |-> Spread(DefaultCapture.responseHeaders, part.responseHeaders),
             requestBody |-> Spread(DefaultCapture.requestBody, part.requestBody),
             responseBody |-> Spread(DefaultCapture.responseBody, part.responseBody),
             maxBodyBytes |-> Spread(Finite(DefaultCapture.maxBodyBytes), part.maxBodyBytes)]
    IN IF capture.requestBody \notin BodyModes THEN Thrown("INVALID_CONFIG")
       ELSE IF capture.responseBody \notin BodyModes THEN Thrown("INVALID_CONFIG")
       ELSE Returned(capture)

\* normalizeCapture(cfg)
NormalizeCapture(cfg) ==
    LET part == IF IsDefined(cfg) THEN Get(cfg) ELSE CapturePartial(Undefined, Undefined, Undefined)
        capture ==
            [requestHeaders |-> Spread(DefaultCapture.requestHeaders, part.requestHeaders),
             responseHeaders |-> Spread(DefaultCapture.responseHeaders, part.responseHeaders),
             requestBody |-> Spread(DefaultCapture.requestBody, part.requestBody),
             responseBody |-> Spread(DefaultCapture.responseBody, part.responseBody),
             maxBodyBytes |-> Spread(Finite(DefaultCapture.maxBodyBytes), part.maxBodyBytes)]
    IN IF capture.requestBody \notin BodyModes THEN Thrown("INVALID_CONFIG")
       ELSE IF capture.responseBody \notin BodyModes THEN Thrown("INVALID_CONFIG")
       ELSE IF ~NumberIsFinite(capture.maxBodyBytes) \/ LessThanZero(capture.maxBodyBytes)
            THEN Thrown("INVALID_CONFIG")
       ELSE Returned(capture)

\* defaultRedaction
DefaultRedaction ==
    [headers |-> <<HeaderAuthorization, HeaderCookie, HeaderSetCookie, HeaderApiKey>>,
     queryParams |-> <<>>, bodyJsonPaths |-> <<>>, replacement |-> Replacement]

\* normalizeStringList(values)
NormalizeStringList(values) == NormalizeList(values)

\* a || b on strings
StringOr(a, b) == IF a # EmptyString THEN a ELSE b

\* {...defaultRedaction, ...cfg}
SpreadRedaction(cfg) ==
    LET part == IF IsDefined(cfg) THEN Get(cfg)
                ELSE RedactionOverride(Undefined, Undefined, Undefined, Undefined)
    IN [headers |-> Spread(DefaultRedaction.headers, part.headers),
        queryParams |-> Spread(DefaultRedaction.queryParams, part.queryParams),
        bodyJsonPaths |-> Spread(DefaultRedaction.bodyJsonPaths, part.bodyJsonPaths),
        replacement |-> Spread(DefaultRedaction.replacement, part.replacement)]

\* redaction.field = value where redaction is the caller's cfg itself
AssignRedactionInPlace(objects, field, value) ==
    [objects EXCEPT !.redaction[field] = value,
                    !.cfg = IF IsDefined(@) THEN Some([Get(@) EXCEPT ![field] = Some(value)])
                            ELSE @]

\* redaction.field = value, on the objects normalizeRedaction holds: the
\* caller's cfg and the redaction object it spread
AssignRedaction(objects, field, value) == [objects EXCEPT !.redaction[field] = value]

\* the objects of normalizeRedaction(cfg) after its assignments
NormalizeRedactionObjects(cfg) ==
    LET o0 == [cfg |-> cfg, redaction |-> SpreadRedaction(cfg)]
        o1 == AssignRedaction(o0, "headers", NormalizeStringList(o0.redaction.headers))
        o2 == AssignRedaction(o1, "queryParams", NormalizeStringList(o1.redaction.queryParams))
        o3 == AssignRedaction(o2, "bodyJsonPaths",
                              NormalizeStringList(o2.redaction.bodyJsonPaths))
    IN AssignRedaction(o3, "replacement",
                       StringOr(o3.redaction.replacement, DefaultRedaction.replacement))

\* normalizeRedaction(cfg)
NormalizeRedaction(cfg) ==
    LET redaction == NormalizeRedactionObjects(cfg).redaction
    IN IF redaction.replacement = EmptyString THEN Thrown("INVALID_REDACTION")
       ELSE Returned(redaction)

\* defaultRequestId
DefaultRequestId == [header |-> <<"r", "e", "q", "u", "e", "s", "t", "-", "i", "d">>]

\* requestId.header = value, on the objects normalizeRequestId holds
AssignRequestId(objects, value) == [objects EXCEPT !.requestId.header = value]

\* the objects of normalizeRequestId(cfg) after its assignment
NormalizeRequestIdObjects(cfg) ==
    LET o0 == [cfg |-> cfg,
               requestId |-> [header |-> IF IsDefined(cfg)
                                         THEN Spread(DefaultRequestId.header, Get(cfg).header)
                                         ELSE DefaultRequestId.header]]
    IN AssignRequestId(o0, ToLowerCase(Trim(o0.requestId.header)))

\* normalizeRequestId(cfg)
NormalizeRequestId(cfg) ==
    LET requestId == NormalizeRequestIdObjects(cfg).requestId
    IN IF requestId.header = EmptyString THEN Thrown("INVALID_CONFIG")
       ELSE Returned(requestId)

TracesPath == <<"/", "v1", "/", "traces">>

\* normalizeExporterEndpoint(endpointUrl) with the environment asked first
NormalizeExporterEndpointEnvFirst(endpointUrl, env) ==
    LET resolved == Coalesce(env.STAINLESS_XRAY_ENDPOINT_URL, endpointUrl)
    IN IF ~IsDefined(resolved) \/ Get(resolved) = EmptyString \/ Trim(Get(resolved)) = EmptyString
       THEN Thrown("INVALID_CONFIG")
       ELSE LET trimmed == Trim(Get(resolved))
                withoutTrailingSlash ==
                    IF EndsWith(trimmed, <<"/">>) THEN Slice(trimmed, 0, Len(trimmed) - 1)
                    ELSE trimmed
            IN IF EndsWith(withoutTrailingSlash, TracesPath) THEN Returned(withoutTrailingSlash)
               ELSE Returned(withoutTrailingSlash \o TracesPath)

\* normalizeExporterEndpoint(endpointUrl)
NormalizeExporterEndpoint(endpointUrl, env) ==
    LET resolved == Coalesce(endpointUrl, env.STAINLESS_XRAY_ENDPOINT_URL)
    IN IF ~IsDefined(resolved) \/ Get(resolved) = EmptyString \/ Trim(Get(resolved)) = EmptyString
       THEN Thrown("INVALID_CONFIG")
       ELSE LET trimmed == Trim(Get(resolved))
                withoutTrailingSlash ==
                    IF EndsWith(trimmed, <<"/">>) THEN Slice(trimmed, 0, Len(trimmed) - 1)
                    ELSE trimmed
            IN IF EndsWith(withoutTrailingSlash, TracesPath) THEN Returned(withoutTrailingSlash)
               ELSE Returned(withoutTrailingSlash \o TracesPath)

\* defaultExporterBase
DefaultExporterBase == [headers |-> <<>>, timeoutMs |-> 30000, spanProcessor |-> <<"batch">>]

SpanProcessors == {<<"simple">>, <<"batch">>}

\* resolveSpanProcessor(configured)
ResolveSpanProcessor(configured, env) ==
    IF IsDefined(configured) /\ Get(configured) # EmptyString THEN Returned(Get(configured))
    ELSE LET envProcessor == env.STAINLESS_XRAY_SPAN_PROCESSOR
         IN IF ~IsDefined(envProcessor) \/ Get(envProcessor) = EmptyString
            THEN Returned(DefaultExporterBase.spanProcessor)
            ELSE IF Get(envProcessor) \in SpanProcessors THEN Returned(Get(envProcessor))
            ELSE Thrown("INVALID_CONFIG")

\* the printable ASCII characters in code order, from the space (32) to "~" (126);
\* GRAVE stands for the grave accent (96)
Ascii ==
    <<" ", "!", "\"", "#", "$", "%", "&", "'", "(", ")", "*", "+", ",", "-", ".", "/",
      "0", "1", "2", "3", "4", "5", "6", "7", "8", "9", ":", ";", "<", "=", ">", "?",
      "@", "A", "B", "C", "D", "E", "F", "G", "H", "I", "J", "K", "L", "M", "N", "O",
      "P", "Q", "R", "S", "T", "U", "V", "W", "X", "Y", "Z", "[", "\\", "]", "^", "_",
      "GRAVE", "a", "b", "c", "d", "e", "f", "g", "h", "i", "j", "k", "l", "m", "n", "o",
      "p", "q", "r", "s", "t", "u", "v", "w", "x", "y", "z", "{", "|", "}", "~">>

CharCodeTable == [c \in {Ascii[i] : i \in 1..Len(Ascii)} |->
                     31 + (CHOOSE i \in 1..Len(Ascii) : Ascii[i] = c)]

\* String.prototype.charCodeAt for one character
CharCode(c) == CharCodeTable[c]

\* TextEncoder.encode(s) for ASCII text
TextEncode(s) == [i \in 1..Len(s) |-> CharCode(s[i])]

Base64Alphabet ==
    <<"A", "B", "C", "D", "E", "F", "G", "H", "I", "J", "K", "L", "M", "N", "O", "P",
      "Q", "R", "S", "T", "U", "V", "W", "X", "Y", "Z", "a", "b", "c", "d", "e", "f",
      "g", "h", "i", "j", "k", "l", "m", "n", "o", "p", "q", "r", "s", "t", "u", "v",
      "w", "x", "y", "z", "0", "1", "2", "3", "4", "5", "6", "7", "8", "9", "+", "/">>

Base64Char(sextet) == Base64Alphabet[sextet + 1]

\* encodeBase64(bytes): Buffer.from(bytes).toString('base64')
RECURSIVE EncodeBase64(_)
EncodeBase64(bytes) ==
    IF bytes = <<>> THEN <<>>
    ELSE IF Len(bytes) = 1
         THEN <<Base64Char(bytes[1] \div 4), Base64Char((bytes[1] % 4) * 16), "=", "=">>
    ELSE IF Len(bytes) = 2
         THEN <<Base64Char(bytes[1] \div 4),
                Base64Char((bytes[1] % 4) * 16 + bytes[2] \div 16),
                Base64Char((bytes[2] % 16) * 4), "=">>
    ELSE <<Base64Char(bytes[1] \div 4),
           Base64Char((bytes[1] % 4) * 16 + bytes[2] \div 16),
           Base64Char((bytes[2] % 16) * 4 + bytes[3] \div 64),
           Base64Char(bytes[3] % 64)>> \o EncodeBase64(SubSeq(bytes, 4, Len(bytes)))

\* encodeBasicAuth(username, password)
EncodeBasicAuth(username, password) ==
    <<"B", "a", "s", "i", "c", " ">> \o EncodeBase64(TextEncode(username \o <<":">> \o password))

\* the percent escapes of the modelled texts, each one character of the text,
\* and the character each stands for
EscapeTable == [c \in {"%20", "%40", "%3A"} |->
                   CASE c = "%20" -> " " [] c = "%40" -> "@" [] c = "%3A" -> ":"]

\* a "%" that begins no escape
MalformedEscapes == {"%"}

\* decodeURIComponent(value): threw when an escape is malformed
DecodeURIComponent(value) ==
    IF \E i \in 1..Len(value) : value[i] \in MalformedEscapes THEN Thrown("URIError")
    ELSE Returned([i \in 1..Len(value) |->
                      IF value[i] \in DOMAIN EscapeTable THEN EscapeTable[value[i]]
                      ELSE value[i]])

\* decodeUserInfo(value)
DecodeUserInfo(value) ==
    IF value = EmptyString THEN value
    ELSE LET decoded == DecodeURIComponent(value)
         IN IF decoded.threw THEN value ELSE Get(decoded.value)

\* the percent-encoding the URL parser applies to a character of the userinfo
EncodeUserInfoChar(c) ==
    CASE c = " " -> "%20"
      [] c = "@" -> "%40"
      [] c = ":" -> "%3A"
      [] OTHER -> c

EncodeUserInfo(s) == [i \in 1..Len(s) |-> EncodeUserInfoChar(s[i])]

\* 1-based index of the last occurrence of c in s, 0 when there is none
LastIndexOf(s, c) ==
    IF \E i \in 1..Len(s) : s[i] = c
    THEN CHOOSE i \in 1..Len(s) : s[i] = c /\ \A j \in (i + 1)..Len(s) : s[j] # c
    ELSE 0

\* the decimal digits of n
RECURSIVE DecimalDigits(_)
DecimalDigits(n) ==
    IF n < 10 THEN <<DigitChars[n + 1]>>
    ELSE DecimalDigits(n \div 10) \o <<DigitChars[(n % 10) + 1]>>

\* code points no host may contain
ForbiddenHostChars == {" ", "%", "<", ">", "[", "]", "^", "|", "\\"}

NoUrl ==
    [ok |-> FALSE, username |-> <<>>, password |-> <<>>, port |-> <<>>,
     url |-> ParseUrl(<<>>)]

\* new URL(value) for a value that may carry userinfo and a port: username and
\* password as the getters return them, port as it is serialized (with its
\* colon, empty for 80, the default of http; no port is above 65535), url the
\* rest of the URL
ParseUrlWithUserInfo(value) ==
    IF value = <<>> \/ Head(value) \notin UrlSchemes THEN NoUrl
    ELSE LET rest == Tail(value)
             authorityEnd == IndexOfAny(rest, {"/", "?", "#"})
             authority == Slice(rest, 0, authorityEnd)
             at == LastIndexOf(authority, "@")
             userinfo == SubSeq(authority, 1, at - 1)
             hostport == SubSeq(authority, at + 1, Len(authority))
             colon == IndexOf(userinfo, ":")
             username == IF colon = -1 THEN userinfo ELSE Slice(userinfo, 0, colon)
             password == IF colon = -1 THEN <<>> ELSE SliceFrom(userinfo, colon + 1)
             portColon == IndexOf(hostport, ":")
             host == IF portColon = -1 THEN hostport ELSE Slice(hostport, 0, portColon)
             portDigits == IF portColon = -1 THEN <<>> ELSE SliceFrom(hostport, portColon + 1)
         IN IF \/ host = <<>>
               \/ \E i \in 1..Len(host) : host[i] \in ForbiddenHostChars
               \/ \E i \in 1..Len(portDigits) : ~IsDigit(portDigits[i])
               \/ Len(portDigits) > 5
               \/ ParseInt(portDigits) > 65535
            THEN NoUrl
            ELSE [ok |-> TRUE,
                  username |-> EncodeUserInfo(username),
                  password |-> EncodeUserInfo(password),
                  port |-> IF portDigits = <<>> \/ ParseInt(portDigits) = 80
                           THEN <<>>
                           ELSE <<":">> \o DecimalDigits(ParseInt(portDigits)),
                  url |-> ParseUrl(<<Head(value)>> \o host \o SliceFrom(rest, authorityEnd))]

\* url.username = ''; url.password = ''; url.toString()
SerializeWithoutUserInfo(u) ==
    <<u.url.scheme>> \o u.url.host \o u.port \o u.url.path
    \o (IF u.url.hasQuery THEN <<"?">> \o u.url.query ELSE <<>>)
    \o (IF u.url.hasFragment THEN <<"#">> \o u.url.fragment ELSE <<>>)

\* hasAuthorizationHeader(headers)
HasAuthorizationHeader(headers) ==
    \E i \in 1..Len(headers) : ToLowerCase(headers[i].name) = HeaderAuthorization

AuthorizationKey ==
    <<"A", "u", "t", "h", "o", "r", "i", "z", "a", "t", "i", "o", "n">>

\* applyEndpointAuth(endpointUrl, headers)
ApplyEndpointAuth(endpointUrl, headers) ==
    Only({IF ~url.ok THEN [endpointUrl |-> endpointUrl, headers |-> headers]
          ELSE LET username == DecodeUserInfo(url.username)
                   password == DecodeUserInfo(url.password)
               IN IF username = EmptyString /\ password = EmptyString
                  THEN [endpointUrl |-> endpointUrl, headers |-> headers]
                  ELSE IF HasAuthorizationHeader(headers)
                       THEN [endpointUrl |-> SerializeWithoutUserInfo(url), headers |-> headers]
                  ELSE [endpointUrl |-> SerializeWithoutUserInfo(url),
                        headers |-> Append(headers,
                                           HeaderPair(AuthorizationKey,
                                                      EncodeBasicAuth(username, password)))]
          : url \in {ParseUrlWithUserInfo(endpointUrl)}})

\* normalizeExporter(endpointUrl, cfg)
NormalizeExporter(endpointUrl, cfg, env) ==
    LET part == IF IsDefined(cfg) THEN Get(cfg)
                ELSE ExporterPartial(Undefined, Undefined, Undefined, Undefined)
        resolvedEndpoint == NormalizeExporterEndpoint(Coalesce(part.endpointUrl, endpointUrl), env)
        rawHeaders == Spread(DefaultExporterBase.headers, part.headers)
        spanProcessor == ResolveSpanProcessor(part.spanProcessor, env)
    IN IF resolvedEndpoint.threw THEN resolvedEndpoint
       ELSE IF spanProcessor.threw THEN spanProcessor
       ELSE LET parsed == ApplyEndpointAuth(Get(resolvedEndpoint.value), rawHeaders)
            IN Returned([endpointUrl |-> parsed.endpointUrl,
                         headers |-> parsed.headers,
                         timeoutMs |-> Spread(DefaultExporterBase.timeoutMs, part.timeoutMs),
                         spanProcessor |-> Get(spanProcessor.value)])

\* !config || !config.serviceName || !config.serviceName.trim()
ServiceNameMissing(config) ==
    \/ ~IsDefined(config)
    \/ ~IsDefined(Get(config).serviceName)
    \/ Get(Get(config).serviceName) = EmptyString
    \/ Trim(Get(Get(config).serviceName)) = EmptyString

\* normalizeConfig(config)
NormalizeConfig(config, env) ==
    IF ServiceNameMissing(config) THEN Thrown("INVALID_CONFIG")
    ELSE LET c == Get(config)
             capture == NormalizeCapture(c.capture)
             redaction == NormalizeRedaction(c.redaction)
             requestId == NormalizeRequestId(c.requestId)
             exporter == NormalizeExporter(c.endpointUrl, c.exporter, env)
         IN IF capture.threw THEN capture
            ELSE IF redaction.threw THEN redaction
            ELSE IF requestId.threw THEN requestId
            ELSE IF exporter.threw THEN exporter
            ELSE Returned([serviceName |-> Trim(Get(c.serviceName)),
                           exporter |-> Get(exporter.value),
                           capture |-> Get(capture.value),
                           redaction |-> Get(redaction.value),
                           requestId |-> Get(requestId.value)])

\* the raw configuration as normalizeConfig(config) leaves it: the objects the
\* caller passed, after the assignments the resolution made
ConfigAfterNormalize(config) ==
    IF ServiceNameMissing(config) THEN config
    ELSE LET c == Get(config)
             capture == NormalizeCapture(c.capture)
             redaction == NormalizeRedaction(c.redaction)
             afterRedaction == [c EXCEPT !.redaction = NormalizeRedactionObjects(@).cfg]
             requestId == NormalizeRequestId(c.requestId)
             afterRequestId ==
                 [afterRedaction EXCEPT !.requestId = NormalizeRequestIdObjects(@).cfg]
         IN IF capture.threw THEN config
            ELSE IF redaction.threw THEN Some(afterRedaction)
            ELSE Some(afterRequestId)

\* createEmitter(config, exporter) with an exporter given: the emitter
\* returned and the fields of the 'xray: emitter configured' record
CreateEmitter(config, env) ==
    Only({IF resolved.threw THEN [threw |-> TRUE, code |-> resolved.code,
                                  emitter |-> Undefined, logged |-> Undefined]
          ELSE [threw |-> FALSE, code |-> "",
                emitter |-> Some([config |-> Get(resolved.value)]),
                logged |-> Some([serviceName |-> Get(resolved.value).serviceName,
                                 exporterEndpoint |-> Get(resolved.value).exporter.endpointUrl,
                                 spanProcessor |-> Get(resolved.value).exporter.spanProcessor])]
          : resolved \in {NormalizeConfig(config, env)}})

(***************************************************************************)
(* Calls of normalizeConfig and createEmitter.  fn holds the raw           *)
(* configuration as the caller built it (raw), the same objects as the     *)
(* call left them (config), the environment, and what the call produced.   *)
(***************************************************************************)

UrlHost == <<"http://", "h">>
UrlHostSlash == <<"http://", "h", "/">>
UrlHostTraces == <<"http://", "h", "/", "v1", "/", "traces">>
UrlHostTracesSlash == <<"http://", "h", "/", "v1", "/", "traces", "/">>
UrlPadded == <<" ", "http://", "H", "/", "x", "/", "/", " ">>
UrlEnv == <<"http://", "e", "/">>
UrlExporter == <<"http://", "x", ":", "4", "3", "1", "8">>
UrlUserPass == <<"http://", "u", ":", "p", "@", "h">>
UrlEscaped == <<"http://", "u", "%40", "a", ":", "p", "%3A", "1", "@", "H", ":", "4", "3", "1", "8", "/", "x">>
UrlUserOnly == <<"http://", "u", "@", "h", ":", "8", "0", "/">>
UrlPasswordOnly == <<"http://", ":", "p", "@", "h">>
UrlNoCredentials == <<"http://", ":", "@", "h">>
UrlSpaced == <<"http://", "u", " ", "a", ":", "p", "@", "h", "/", "v1", "/", "traces">>
UrlMalformedEscape == <<"http://", "u", ":", "p", "%", "@", "h">>
UrlBadPort == <<"http://", "u", ":", "p", "@", "h", ":", "9", "9", "9", "9", "9">>
UrlBadHost == <<"http://", "u", ":", "p", "@", "m", "y", " ", "h">>
UrlEnvUserPass == <<"http://", "v", ":", "w", "@", "e">>

ServiceName == <<"s", "v", "c">>

CfServiceNames ==
    {Undefined, Some(EmptyString), Some(<<" ">>), Some(ServiceName),
     Some(<<" ">> \o ServiceName \o <<" ">>)}

CfCaptures ==
    {Undefined}
    \cup {Some(CapturePartial(Some(m), Undefined, Undefined)) : m \in {"none", "json"}}
    \cup {Some(CapturePartial(Undefined, Some(m), Undefined)) : m \in {"base64", "binary"}}
    \cup {Some(CapturePartial(Undefined, Undefined, Some(n))) :
              n \in {Finite(0), Finite(-1), NaN, PositiveInfinity, NegativeInfinity}}

CfRedactions ==
    {Undefined}
    \cup {Some(RedactionOverride(Undefined, Undefined, Undefined, Some(r))) :
              r \in {EmptyString, <<" ">>, <<"*", "*">>}}
    \cup {Some(RedactionOverride(Some(<<<<" ", "X", "-", "T", " ">>, <<" ">>>>),
                                 Some(<<<<"t">>, EmptyString>>),
                                 Some(<<<<" ", "$", ".", "a">>>>), Undefined))}

CfRequestIds ==
    {Undefined, Some([header |-> Undefined])}
    \cup {Some([header |-> Some(h)]) : h \in {EmptyString, <<" ">>, <<" ", "X", "-", "I", "d", " ">>}}

CfAuthorizationHeaders ==
    {<<HeaderPair(HeaderAuthorization, <<"B", "e", "a", "r", "e", "r", " ", "t">>)>>,
     <<HeaderPair(<<"x", "-", "k">>, <<"1">>),
       HeaderPair(<<"A", "U", "T", "H", "O", "R", "I", "Z", "A", "T", "I", "O", "N">>, <<"t">>)>>}

CfExporters ==
    {Undefined,
     Some(ExporterPartial(Some(UrlExporter), Undefined, Undefined, Undefined)),
     Some(ExporterPartial(Undefined, Some(<<HeaderPair(<<"x", "-", "k">>, <<"1">>)>>),
                          Some(5), Some(<<"simple">>)))}
    \cup {Some(ExporterPartial(Undefined, Some(h), Undefined, Undefined)) :
              h \in CfAuthorizationHeaders}

CfEnvironments ==
    {Environment(e, p) : e \in {Undefined, Some(UrlEnv), Some(UrlEnvUserPass)},
                         p \in {Undefined, Some(<<"simple">>), Some(<<"bogus">>)}}

\* configurations that differ in what is validated
CfValidated ==
    {Some(XrayConfig(s, e, Undefined, c, r, i)) :
        s \in CfServiceNames, e \in {Undefined, Some(<<" ">>), Some(UrlHost)},
        c \in CfCaptures, r \in CfRedactions, i \in CfRequestIds}

\* configurations that differ in where the endpoint comes from
CfEndpoints ==
    {Some(XrayConfig(Some(ServiceName), e, x, Undefined, Undefined, Undefined)) :
        e \in {Undefined, Some(EmptyString)}
              \cup {Some(u) : u \in {UrlHost, UrlHostSlash, UrlHostTraces, UrlHostTracesSlash,
                                     UrlPadded, UrlUserPass, UrlEscaped, UrlUserOnly,
                                     UrlPasswordOnly, UrlNoCredentials, UrlSpaced,
                                     UrlMalformedEscape, UrlBadPort, UrlBadHost}},
        x \in CfExporters}

CfInputs ==
    {[config |-> c, env |-> e] :
        c \in CfValidated, e \in {Environment(Undefined, Undefined),
                                  Environment(Some(UrlEnv), Undefined)}}
    \cup {[config |-> c, env |-> e] : c \in CfEndpoints \cup {Undefined}, e \in CfEnvironments}

NoOutcome == [threw |-> FALSE, code |-> "", value |-> <<>>]

CfInit ==
    /\ BufIdle /\ CoreIdle /\ AdIdle
    /\ fc = <<>> /\ mr = <<>> /\ rd = <<>>
    /\ \E op \in {"normalizeConfig", "createEmitter"}, i \in CfInputs :
          fn = [op |-> op, pc |-> "input", raw |-> i.config, config |-> i.config,
                env |-> i.env, out |-> NoOutcome, again |-> NoOutcome,
                emitter |-> Undefined, logged |-> Undefined]

\* resolved = normalizeConfig(config)
CfNormalizeConfig ==
    /\ fn.op = "normalizeConfig" /\ fn.pc = "input"
    /\ fn' = [fn EXCEPT !.pc = "done",
                        !.out = NormalizeConfig(fn.config, fn.env),
                        !.config = ConfigAfterNormalize(fn.config)]
    /\ FnUnchanged

\* normalizeConfig(config) once more, on the same objects, the environment
\* unchanged
CfNormalizeAgain ==
    /\ fn.op = "normalizeConfig" /\ fn.pc = "done"
    /\ fn' = [fn EXCEPT !.pc = "again",
                        !.again = NormalizeConfig(fn.config, fn.env),
                        !.config = ConfigAfterNormalize(fn.config)]
    /\ FnUnchanged

\* emitter = createEmitter(config, exporter)
CfCreateEmitter ==
    /\ fn.op = "createEmitter" /\ fn.pc = "input"
    /\ \E r \in {CreateEmitter(fn.config, fn.env)} :
          fn' = [fn EXCEPT !.pc = "done",
                           !.out = [threw |-> r.threw, code |-> r.code, value |-> <<>>],
                           !.emitter = r.emitter,
                           !.logged = r.logged,
                           !.config = ConfigAfterNormalize(fn.config)]
    /\ FnUnchanged

CfNext == CfNormalizeConfig \/ CfNormalizeAgain \/ CfCreateEmitter

SpecConfig == CfInit /\ [][CfNext]_vars

\* fn is a finished call of normalizeConfig or createEmitter
CfDone == fn.op \in {"normalizeConfig", "createEmitter"} /\ fn.pc # "input"

\* what the caller gave, read from the raw configuration
CfGiven == IsDefined(fn.raw)
CfServiceNameBlank ==
    ~CfGiven \/ ~IsDefined(Get(fn.raw).serviceName)
    \/ \A i \in 1..Len(Get(Get(fn.raw).serviceName)) : Get(Get(fn.raw).serviceName)[i] = " "
CfExplicitEndpoint ==
    IF CfGiven /\ IsDefined(Get(fn.raw).exporter)
       /\ IsDefined(Get(Get(fn.raw).exporter).endpointUrl)
    THEN Get(Get(fn.raw).exporter).endpointUrl
    ELSE IF CfGiven THEN Get(fn.raw).endpointUrl ELSE Undefined
CfNoEndpoint ==
    ~IsDefined(CfExplicitEndpoint) /\ ~IsDefined(fn.env.STAINLESS_XRAY_ENDPOINT_URL)
CfBadBodyMode ==
    /\ CfGiven /\ IsDefined(Get(fn.raw).capture)
    /\ \/ /\ IsDefined(Get(Get(fn.raw).capture).requestBody)
          /\ Get(Get(Get(fn.raw).capture).requestBody) \notin {"none", "text", "base64"}
       \/ /\ IsDefined(Get(Get(fn.raw).capture).responseBody)
          /\ Get(Get(Get(fn.raw).capture).responseBody) \notin {"none", "text", "base64"}
CfBadMaxBodyBytes ==
    /\ CfGiven /\ IsDefined(Get(fn.raw).capture)
    /\ IsDefined(Get(Get(fn.raw).capture).maxBodyBytes)
    /\ \E n \in {Get(Get(Get(fn.raw).capture).maxBodyBytes)} : n.kind # "finite" \/ n.n < 0
CfBlankRequestIdHeader ==
    /\ CfGiven /\ IsDefined(Get(fn.raw).requestId)
    /\ IsDefined(Get(Get(fn.raw).requestId).header)
    /\ \A i \in 1..Len(Get(Get(Get(fn.raw).requestId).header)) :
           Get(Get(Get(fn.raw).requestId).header)[i] = " "

\* C22: normalizeConfig, and therefore createEmitter, throws an XrayConfigError
\* with code INVALID_CONFIG and returns nothing (no resolved configuration, no
\* emitter) when the service name is missing or blank, when no endpoint URL is
\* given and the environment fallback is unset, when a body capture mode is
\* not none, text or base64, when maxBodyBytes is negative or not finite, or
\* when the request-id header name is blank
C22_InvalidConfigIsFatal ==
    (/\ CfDone
     /\ \/ CfServiceNameBlank \/ CfNoEndpoint \/ CfBadBodyMode
        \/ CfBadMaxBodyBytes \/ CfBlankRequestIdHeader) =>
        /\ fn.out.threw /\ fn.out.code = "INVALID_CONFIG"
        /\ fn.out.value = <<>> /\ fn.emitter = Undefined

\* createEmitter was called with a valid service name and an endpoint, and
\* with maxBodyBytes NaN
C22_Witness ==
    /\ fn.op = "createEmitter" /\ fn.pc = "done"
    /\ ~CfServiceNameBlank /\ ~CfNoEndpoint /\ ~CfBadBodyMode /\ ~CfBlankRequestIdHeader
    /\ CfBadMaxBodyBytes
    /\ Get(Get(Get(fn.raw).capture).maxBodyBytes) = NaN
    /\ fn.out.threw

\* what the caller gave as redaction.replacement is blank or zero-length
CfBlankReplacement ==
    /\ CfGiven /\ IsDefined(Get(fn.raw).redaction)
    /\ IsDefined(Get(Get(fn.raw).redaction).replacement)
    /\ \A i \in 1..Len(Get(Get(Get(fn.raw).redaction).replacement)) :
           Get(Get(Get(fn.raw).redaction).replacement)[i] = " "

\* C23: normalizeConfig rejects a redaction policy whose replacement token is
\* blank or zero-length by throwing an XrayConfigError with code
\* INVALID_REDACTION, distinct from INVALID_CONFIG (stated for configurations
\* that are valid otherwise)
C23_BlankReplacementIsRejected ==
    (/\ CfDone /\ CfBlankReplacement
     /\ ~(\/ CfServiceNameBlank \/ CfNoEndpoint \/ CfBadBodyMode
          \/ CfBadMaxBodyBytes \/ CfBlankRequestIdHeader)
     /\ \E e \in {CfExplicitEndpoint} : IsDefined(e) => Trim(Get(e)) # EmptyString) =>
        fn.out.threw /\ fn.out.code = "INVALID_REDACTION"

\* the endpoint the resolution starts from: the explicit one when there is
\* one, the environment's otherwise
CfEndpointSource ==
    IF IsDefined(CfExplicitEndpoint) THEN CfExplicitEndpoint
    ELSE fn.env.STAINLESS_XRAY_ENDPOINT_URL

\* text without its surrounding blanks and without one trailing slash, ending
\* with the traces path once
WithTracesPath(text) ==
    LET first == CHOOSE i \in 1..Len(text) : text[i] # " " /\ \A j \in 1..(i - 1) : text[j] = " "
        last == CHOOSE i \in 1..Len(text) :
                    text[i] # " " /\ \A j \in (i + 1)..Len(text) : text[j] = " "
        end == IF text[last] = "/" THEN last - 1 ELSE last
        base == SubSeq(text, first, end)
    IN IF Len(base) >= 4 /\ SubSeq(base, Len(base) - 3, Len(base)) = <<"/", "v1", "/", "traces">>
       THEN base
       ELSE base \o <<"/", "v1", "/", "traces">>

HasUserInfo(text) == \E i \in 1..Len(text) : text[i] = "@"

\* C24: the resolved exporter endpoint is taken from the explicit endpoint URL
\* whenever one is given and from STAINLESS_XRAY_ENDPOINT_URL only otherwise; a
\* trailing slash is stripped and '/v1/traces' is appended unless the URL
\* already ends with it (the text is compared for endpoints without userinfo)
C24_EndpointFromExplicitThenEnvironment ==
    (CfDone /\ fn.op = "normalizeConfig" /\ ~fn.out.threw) =>
        /\ IsDefined(CfEndpointSource)
        /\ EndsWith(Get(fn.out.value).exporter.endpointUrl, TracesPath)
        /\ ~HasUserInfo(Get(CfEndpointSource)) =>
               Get(fn.out.value).exporter.endpointUrl = WithTracesPath(Get(CfEndpointSource))

\* an explicit endpoint with a trailing slash was resolved while the
\* environment named another one
C24_Witness ==
    /\ fn.op = "normalizeConfig" /\ fn.pc = "done" /\ ~fn.out.threw
    /\ Get(fn.raw).endpointUrl = Some(UrlHostSlash)
    /\ Get(fn.raw).exporter = Undefined
    /\ fn.env.STAINLESS_XRAY_ENDPOINT_URL = Some(UrlEnv)
    /\ Get(fn.out.value).exporter.endpointUrl = UrlHostTraces

\* the authority of an endpoint text: what follows the scheme up to the first
\* "/", "?" or "#"
AuthorityOf(text) ==
    LET rest == Tail(Trim(text))
    IN SubSeq(rest, 1, IndexOfAny(rest, {"/", "?", "#"}))

\* the userinfo of an endpoint text: what precedes the last "@" of the authority
UserInfoOf(text) == SubSeq(AuthorityOf(text), 1, LastIndexOf(AuthorityOf(text), "@") - 1)

\* text with each percent escape replaced by the character it stands for
PercentDecoded(text) ==
    [i \in 1..Len(text) |->
        CASE text[i] = "%20" -> " " [] text[i] = "%40" -> "@" [] text[i] = "%3A" -> ":"
          [] OTHER -> text[i]]

\* the user and the password an endpoint text embeds, percent-decoded
EmbeddedUser(text) ==
    PercentDecoded(IF \E i \in 1..Len(UserInfoOf(text)) : UserInfoOf(text)[i] = ":"
                   THEN SubSeq(UserInfoOf(text), 1, IndexOf(UserInfoOf(text), ":"))
                   ELSE UserInfoOf(text))
EmbeddedPassword(text) ==
    PercentDecoded(IF \E i \in 1..Len(UserInfoOf(text)) : UserInfoOf(text)[i] = ":"
                   THEN SubSeq(UserInfoOf(text), IndexOf(UserInfoOf(text), ":") + 2,
                               Len(UserInfoOf(text)))
                   ELSE <<>>)

EmbedsCredentials(text) ==
    /\ Trim(text) # <<>>
    /\ HasUserInfo(AuthorityOf(text))
    /\ EmbeddedUser(text) # <<>> \/ EmbeddedPassword(text) # <<>>

\* the exporter headers the caller gave
CfCallerHeaders ==
    IF CfGiven /\ IsDefined(Get(fn.raw).exporter) /\ IsDefined(Get(Get(fn.raw).exporter).headers)
    THEN Get(Get(Get(fn.raw).exporter).headers)
    ELSE <<>>

CfCallerAuthorization ==
    \E i \in 1..Len(CfCallerHeaders) :
        /\ Len(CfCallerHeaders[i].name) = Len(HeaderAuthorization)
        /\ \A k \in 1..Len(HeaderAuthorization) :
               CfCallerHeaders[i].name[k] \in {HeaderAuthorization[k], AuthorizationKey[k],
                                               UpperChar(HeaderAuthorization[k])}

\* fn is a configuration resolved from an endpoint that embeds credentials
CfResolvedWithCredentials ==
    /\ CfDone /\ fn.op = "normalizeConfig" /\ ~fn.out.threw
    /\ EmbedsCredentials(Get(CfEndpointSource))

\* the resolved endpoint has no userinfo, and the exporter headers are the
\* caller's when they name an authorization header, the caller's followed by
\* the Basic authorization of the embedded credentials otherwise
CfCredentialsMoved ==
    /\ ~HasUserInfo(Get(fn.out.value).exporter.endpointUrl)
    /\ Get(fn.out.value).exporter.headers =
          IF CfCallerAuthorization THEN CfCallerHeaders
          ELSE Append(CfCallerHeaders,
                      HeaderPair(AuthorizationKey,
                                 <<"B", "a", "s", "i", "c", " ">>
                                 \o EncodeBase64(TextEncode(
                                        EmbeddedUser(Get(CfEndpointSource)) \o <<":">>
                                        \o EmbeddedPassword(Get(CfEndpointSource))))))

\* C25: if the endpoint URL embeds user:password credentials, the resolved
\* endpoint URL contains no userinfo in every case, and the exporter headers
\* carry 'Authorization: Basic base64(user:password)' built from the
\* percent-decoded credentials unless the caller supplied an authorization
\* header (any letter case), which is then kept unchanged
C25_CredentialsLeaveTheEndpoint == CfResolvedWithCredentials => CfCredentialsMoved

\* C26: resolving the same raw configuration object twice, with the
\* environment unchanged, yields structurally equal resolved configurations
\* (or the same error), and resolution never mutates the input object or any
\* object nested in it
C26_ResolutionRepeatsAndLeavesInput ==
    /\ CfDone => fn.config = fn.raw
    /\ (fn.op = "normalizeConfig" /\ fn.pc = "again") => fn.again = fn.out

\* a configuration whose redaction lists are changed by the normalization was
\* resolved twice
C26_Witness ==
    /\ fn.op = "normalizeConfig" /\ fn.pc = "again" /\ ~fn.out.threw
    /\ IsDefined(Get(fn.raw).redaction)
    /\ IsDefined(Get(Get(fn.raw).redaction).headers)
    /\ Get(fn.out.value).redaction.headers # Get(Get(Get(fn.raw).redaction).headers)
    /\ Get(fn.out.value).redaction.headers = <<<<"X", "-", "T">>>>

(***************************************************************************)
(* The lexicographic base-48 and base-62 encodings (core/uuid/base48.ts,   *)
(* base62.ts).  The two files differ in the alphabet only, which is a      *)
(* parameter here.  A BigInt is the sequence of its base-256 digits.       *)
(***************************************************************************)
Base48AlphabetLex ==
    <<"2", "5", "6", "7", "8", "9", "B", "C", "D", "F", "G", "H", "J", "K", "L", "M",
      "N", "P", "Q", "R", "S", "T", "V", "W", "X", "Y", "Z", "b", "c", "d", "f", "g",
      "h", "j", "k", "l", "m", "n", "p", "q", "r", "s", "t", "v", "w", "x", "y", "z">>

Base62AlphabetLex ==
    <<"0", "1", "2", "3", "4", "5", "6", "7", "8", "9", "A", "B", "C", "D", "E", "F",
      "G", "H", "I", "J", "K", "L", "M", "N", "O", "P", "Q", "R", "S", "T", "U", "V",
      "W", "X", "Y", "Z", "a", "b", "c", "d", "e", "f", "g", "h", "i", "j", "k", "l",
      "m", "n", "o", "p", "q", "r", "s", "t", "u", "v", "w", "x", "y", "z">>

MaxChunkBytes == 32

\* Math.log2(base) in millionths: Math.log2(48) is 5.584962500721156 and
\* Math.log2(62) is 5.954196310386875
Log2Millionths(base) == IF base = 48 THEN 5584963 ELSE 5954196

\* Math.ceil((size * 8) / Math.log2(base)) with the quotient rounded down
ChunkToEncodedLengthFloor(base, size) == (size * 8 * 1000000) \div Log2Millionths(base)

\* chunkToEncodedLength.get(size) for a size the table has:
\* Math.ceil((size * 8) / Math.log2(base))
ChunkToEncodedLength(base, size) ==
    (size * 8 * 1000000 + Log2Millionths(base) - 1) \div Log2Millionths(base)

\* encodedLengthToChunk.get(length): the table is filled in the order of the
\* sizes, a later size replacing an earlier one
EncodedLengthToChunk(base, length) ==
    LET sizes == {size \in 1..MaxChunkBytes : ChunkToEncodedLength(base, size) = length}
    IN IF sizes = {} THEN Undefined
       ELSE Some(CHOOSE size \in sizes : \A other \in sizes : other <= size)

MaxEncodedChunk(base) == ChunkToEncodedLength(base, MaxChunkBytes)

\* value === 0n, value given by its digits
IsZero(digits) == \A i \in 1..Len(digits) : digits[i] = 0

\* value / d and value % d for the digits lo..hi of value, remainder being
\* what the digits before them left; value is given by its base-256 digits
\* from the most significant.  The range is halved to keep the evaluation
\* shallow.
RECURSIVE DivModRange(_, _, _, _, _)
DivModRange(digits, d, lo, hi, remainder) ==
    IF lo > hi THEN [quotient |-> <<>>, remainder |-> remainder]
    ELSE IF lo = hi
         THEN [quotient |-> <<(remainder * 256 + digits[lo]) \div d>>,
               remainder |-> (remainder * 256 + digits[lo]) % d]
    ELSE Only({Only({[quotient |-> left.quotient \o right.quotient,
                      remainder |-> right.remainder] :
                        right \in {DivModRange(digits, d, (lo + hi) \div 2 + 1, hi,
                                               left.remainder)}}) :
                  left \in {DivModRange(digits, d, lo, (lo + hi) \div 2, remainder)}})

\* value / d and value % d; the quotient has as many digits as value
DivMod(digits, d) == DivModRange(digits, d, 1, Len(digits), 0)

\* one round of the loop of encodeChunk, none once value is 0n:
\* while (value > 0n) { encoded = alphabet[value % base] + encoded; value /= base }
EncodeRound(alphabet, s) ==
    IF IsZero(s.value) THEN s
    ELSE Only({[value |-> r.quotient, encoded |-> <<alphabet[r.remainder + 1]>> \o s.encoded] :
                  r \in {DivMod(s.value, Len(alphabet))}})

\* rounds rounds of the loop, halved to keep the evaluation shallow
RECURSIVE EncodeRounds(_, _, _)
EncodeRounds(alphabet, s, rounds) ==
    IF rounds = 0 THEN s
    ELSE IF rounds = 1 THEN EncodeRound(alphabet, s)
    ELSE Only({EncodeRounds(alphabet, mid, rounds - rounds \div 2) :
                  mid \in {EncodeRounds(alphabet, s, rounds \div 2)}})

\* the loop of encodeChunk; it ends within two rounds for each byte, a byte
\* being less than two digits of either base
EncodeDigits(alphabet, bytes) ==
    EncodeRounds(alphabet, [value |-> bytes, encoded |-> <<>>], 2 * Len(bytes)).encoded

\* String.prototype.padStart that pads nothing
PadStartNone(s, n, c) == s

\* String.prototype.padStart with a one-character filler
PadStart(s, n, c) == IF Len(s) >= n THEN s ELSE [i \in 1..(n - Len(s)) |-> c] \o s

\* encodeChunk(bytes, size)
EncodeChunk(alphabet, bytes, size) ==
    PadStart(IF IsZero(bytes) THEN <<alphabet[1]>> ELSE EncodeDigits(alphabet, bytes),
             ChunkToEncodedLength(Len(alphabet), size), alphabet[1])

\* the loop of encodeBase48Lex / encodeBase62Lex from offset on
RECURSIVE EncodeFrom(_, _, _)
EncodeFrom(alphabet, buffer, offset) ==
    IF offset >= Len(buffer) THEN <<>>
    ELSE LET remaining == Len(buffer) - offset
             size == IF remaining >= MaxChunkBytes THEN MaxChunkBytes ELSE remaining
         IN EncodeChunk(alphabet, SubSeq(buffer, offset + 1, offset + size), size)
            \o EncodeFrom(alphabet, buffer, offset + size)

\* encodeBase48Lex(buffer) / encodeBase62Lex(buffer), by the alphabet
EncodeLex(alphabet, buffer) == IF Len(buffer) = 0 THEN <<>> ELSE EncodeFrom(alphabet, buffer, 0)

EncodeBase48Lex(buffer) == EncodeLex(Base48AlphabetLex, buffer)
EncodeBase62Lex(buffer) == EncodeLex(Base62AlphabetLex, buffer)

\* the digits lo..hi of n * m + a and the carry they leave, carry being what
\* the digits below them left; n is given by its base-256 digits from the
\* least significant
RECURSIVE MulAddRange(_, _, _, _, _)
MulAddRange(digits, m, lo, hi, carry) ==
    IF lo > hi THEN [digits |-> <<>>, carry |-> carry]
    ELSE IF lo = hi
         THEN [digits |-> <<(digits[lo] * m + carry) % 256>>,
               carry |-> (digits[lo] * m + carry) \div 256]
    ELSE Only({Only({[digits |-> low.digits \o high.digits, carry |-> high.carry] :
                        high \in {MulAddRange(digits, m, (lo + hi) \div 2 + 1, hi, low.carry)}}) :
                  low \in {MulAddRange(digits, m, lo, (lo + hi) \div 2, carry)}})

\* n * m + a for m and a below 256, without leading zeros
MulAdd(digits, m, a) ==
    Only({IF r.carry = 0 THEN r.digits ELSE Append(r.digits, r.carry) :
             r \in {MulAddRange(digits, m, 1, Len(digits), a)}})

\* alphabet.indexOf(char)
AlphabetIndexOf(alphabet, char) ==
    IF \E k \in 1..Len(alphabet) : alphabet[k] = char
    THEN (CHOOSE k \in 1..Len(alphabet) : alphabet[k] = char) - 1
    ELSE -1

\* one round of the first loop of decodeChunk: n = n * base + index; threw on
\* a character outside the alphabet
DecodeRound(alphabet, value, s) ==
    IF s.threw THEN s
    ELSE IF AlphabetIndexOf(alphabet, value[s.i]) = -1 THEN [s EXCEPT !.threw = TRUE]
    ELSE [i |-> s.i + 1, threw |-> FALSE,
          n |-> MulAdd(s.n, Len(alphabet), AlphabetIndexOf(alphabet, value[s.i]))]

\* rounds rounds of the loop, halved to keep the evaluation shallow
RECURSIVE DecodeRounds(_, _, _, _)
DecodeRounds(alphabet, value, s, rounds) ==
    IF rounds = 0 THEN s
    ELSE IF rounds = 1 THEN DecodeRound(alphabet, value, s)
    ELSE Only({DecodeRounds(alphabet, value, mid, rounds - rounds \div 2) :
                  mid \in {DecodeRounds(alphabet, value, s, rounds \div 2)}})

\* the first loop of decodeChunk
DecodeDigits(alphabet, value) ==
    Only({IF r.threw THEN Thrown("invalid character") ELSE Returned(r.n) :
             r \in {DecodeRounds(alphabet, value, [i |-> 1, threw |-> FALSE, n |-> <<>>],
                                 Len(value))}})

\* decodeChunk(value, size)
DecodeChunk(alphabet, value, size) ==
    Only({IF n.threw THEN n
          ELSE IF Len(Get(n.value)) > size THEN Thrown("invalid length")
          ELSE Returned([i \in 1..size |->
                            IF size - i + 1 <= Len(Get(n.value)) THEN Get(n.value)[size - i + 1]
                            ELSE 0])
          : n \in {DecodeDigits(alphabet, value)}})

\* the loops of decodeBase48Lex / decodeBase62Lex from offset on
RECURSIVE DecodeFrom(_, _, _)
DecodeFrom(alphabet, value, offset) ==
    IF offset >= Len(value) THEN Returned(<<>>)
    ELSE LET remaining == Len(value) - offset
             chunkLength == IF remaining >= MaxEncodedChunk(Len(alphabet))
                            THEN MaxEncodedChunk(Len(alphabet)) ELSE remaining
             size == EncodedLengthToChunk(Len(alphabet), chunkLength)
         IN IF ~IsDefined(size) THEN Thrown("invalid length")
            ELSE Only({IF chunk.threw THEN chunk
                       ELSE IF rest.threw THEN rest
                       ELSE Returned(Get(chunk.value) \o Get(rest.value))
                       : chunk \in {DecodeChunk(alphabet,
                                                SubSeq(value, offset + 1, offset + chunkLength),
                                                Get(size))},
                         rest \in {DecodeFrom(alphabet, value, offset + chunkLength)}})

\* decodeBase48Lex(value) / decodeBase62Lex(value), by the alphabet
DecodeLex(alphabet, value) ==
    IF value = <<>> THEN Returned(<<>>)
    ELSE IF \E i \in 1..Len(value) : AlphabetIndexOf(alphabet, value[i]) = -1
         THEN Thrown("invalid string")
    ELSE DecodeFrom(alphabet, value, 0)

DecodeBase48Lex(value) == DecodeLex(Base48AlphabetLex, value)
DecodeBase62Lex(value) == DecodeLex(Base62AlphabetLex, value)

(***************************************************************************)
(* Calls of the two encodings: a round trip of one byte sequence, and the  *)
(* encoding of two 16-byte values.                                         *)
(***************************************************************************)
MaxBytes == 200

Encodings == {"base48", "base62"}

AlphabetOf(encoding) == IF encoding = "base48" THEN Base48AlphabetLex ELSE Base62AlphabetLex

EnLengths == {0, 1, 2, 3, 15, 16, 17, 31, 32, 33, 63, 64, 65, 96, MaxBytes - 1, MaxBytes}

\* byte sequences of one length: all zero, all 255, a ramp, a one after
\* zeros, a 255 before zeros, a one before zeros
EnFilled(n) ==
    {[i \in 1..n |-> 0], [i \in 1..n |-> 255], [i \in 1..n |-> ((i * 37) + 11) % 256],
     [i \in 1..n |-> IF i = n THEN 1 ELSE 0], [i \in 1..n |-> IF i = 1 THEN 255 ELSE 0],
     [i \in 1..n |-> IF i % MaxChunkBytes = 1 THEN 1 ELSE 0]}

EnEdgeBytes == {0, 1, 47, 48, 61, 62, 255}

EnByteSequences ==
    UNION {EnFilled(n) : n \in EnLengths}
    \cup {<<a>> : a \in EnEdgeBytes} \cup {<<a, b>> : a, b \in EnEdgeBytes}

\* 16-byte values: the least and the greatest, and values that differ in the
\* first, a middle or the last byte
EnValues ==
    {[i \in 1..16 |-> 0], [i \in 1..16 |-> 255],
     [i \in 1..16 |-> IF i = 16 THEN 1 ELSE 0], [i \in 1..16 |-> IF i = 16 THEN 47 ELSE 0],
     [i \in 1..16 |-> IF i = 16 THEN 48 ELSE 0], [i \in 1..16 |-> IF i = 16 THEN 62 ELSE 0],
     [i \in 1..16 |-> IF i = 15 THEN 1 ELSE 0], [i \in 1..16 |-> IF i = 15 THEN 0 ELSE 255],
     [i \in 1..16 |-> IF i = 1 THEN 1 ELSE 0], [i \in 1..16 |-> IF i = 1 THEN 1 ELSE 255],
     [i \in 1..16 |-> IF i = 1 THEN 128 ELSE 0], [i \in 1..16 |-> IF i = 1 THEN 255 ELSE 0],
     [i \in 1..16 |-> IF i = 8 THEN 1 ELSE 0], [i \in 1..16 |-> IF i < 8 THEN 0 ELSE 255],
     [i \in 1..16 |-> (i * 37 + 11) % 256], [i \in 1..16 |-> (i * 37 + 12) % 256]}

\* a < b as unsigned big-endian numbers of the same length
RECURSIVE BytesLess(_, _)
BytesLess(a, b) ==
    /\ a # <<>>
    /\ \/ Head(a) < Head(b)
       \/ Head(a) = Head(b) /\ BytesLess(Tail(a), Tail(b))

\* a < b on strings: the comparison of their UTF-16 code units
RECURSIVE StringLess(_, _)
StringLess(a, b) ==
    /\ b # <<>>
    /\ \/ a = <<>>
       \/ CharCode(Head(a)) < CharCode(Head(b))
       \/ Head(a) = Head(b) /\ StringLess(Tail(a), Tail(b))

EnInit ==
    /\ BufIdle /\ CoreIdle /\ AdIdle
    /\ fc = <<>> /\ mr = <<>> /\ rd = <<>>
    /\ \/ \E e \in Encodings, bytes \in EnByteSequences :
             fn = [op |-> "roundTrip", pc |-> "input", encoding |-> e, bytes |-> bytes,
                   other |-> <<>>, encoded |-> <<>>, encodedOther |-> <<>>,
                   decoded |-> NoOutcome]
       \/ \E e \in Encodings, a \in EnValues, b \in EnValues :
             /\ BytesLess(a, b)
             /\ fn = [op |-> "order", pc |-> "input", encoding |-> e, bytes |-> a,
                      other |-> b, encoded |-> <<>>, encodedOther |-> <<>>,
                      decoded |-> NoOutcome]

\* encoded = encode(bytes)
EnEncode ==
    /\ fn.op = "roundTrip" /\ fn.pc = "input"
    /\ fn' = [fn EXCEPT !.pc = "encoded",
                        !.encoded = IF fn.encoding = "base48" THEN EncodeBase48Lex(fn.bytes)
                                    ELSE EncodeBase62Lex(fn.bytes)]
    /\ FnUnchanged

\* decoded = decode(encoded)
EnDecode ==
    /\ fn.op = "roundTrip" /\ fn.pc = "encoded"
    /\ fn' = [fn EXCEPT !.pc = "done",
                        !.decoded = IF fn.encoding = "base48" THEN DecodeBase48Lex(fn.encoded)
                                    ELSE DecodeBase62Lex(fn.encoded)]
    /\ FnUnchanged

\* encode(a) and encode(b)
EnEncodePair ==
    /\ fn.op = "order" /\ fn.pc = "input"
    /\ fn' = [fn EXCEPT !.pc = "done",
                        !.encoded = IF fn.encoding = "base48" THEN EncodeBase48Lex(fn.bytes)
                                    ELSE EncodeBase62Lex(fn.bytes),
                        !.encodedOther = IF fn.encoding = "base48"
                                         THEN EncodeBase48Lex(fn.other)
                                         ELSE EncodeBase62Lex(fn.other)]
    /\ FnUnchanged

EnNext == EnEncode \/ EnDecode \/ EnEncodePair

SpecEncoding == EnInit /\ [][EnNext]_vars

\* C27: for both the base-48 and the base-62 encoding and every byte sequence
\* of length 0 to MaxBytes, including lengths that span several 32-byte
\* chunks, decode(encode(bytes)) equals bytes
C27_DecodeInvertsEncode ==
    (fn.op = "roundTrip" /\ fn.pc = "done") =>
        /\ ~fn.decoded.threw
        /\ Get(fn.decoded.value) = fn.bytes

\* a sequence of MaxBytes bytes that are not all equal went through the
\* base-48 round trip, its encoding being longer than six full chunks
C27_Witness ==
    /\ fn.op = "roundTrip" /\ fn.pc = "done" /\ fn.encoding = "base48"
    /\ Len(fn.bytes) = MaxBytes
    /\ \E i \in 1..Len(fn.bytes) : fn.bytes[i] # fn.bytes[1]
    /\ Len(fn.encoded) > 6 * MaxEncodedChunk(48)
    /\ Get(fn.decoded.value) = fn.bytes

\* C28: for both encodings and all pairs of distinct 16-byte values a < b
\* compared as unsigned big-endian numbers, encode(a) < encode(b) under plain
\* string comparison, and both encoded strings have the same length
C28_EncodingKeepsOrder ==
    (fn.op = "order" /\ fn.pc = "done") =>
        /\ StringLess(fn.encoded, fn.encodedOther)
        /\ Len(fn.encoded) = Len(fn.encodedOther)

\* two values that differ in the last byte only, by less than the base, were
\* encoded in base 62, each to 22 characters
C28_Witness ==
    /\ fn.op = "order" /\ fn.pc = "done" /\ fn.encoding = "base62"
    /\ SubSeq(fn.bytes, 1, 15) = SubSeq(fn.other, 1, 15)
    /\ fn.bytes[16] = 1 /\ fn.other[16] = 47
    /\ Len(fn.encoded) = 22
    /\ StringLess(fn.encoded, fn.encodedOther)

(***************************************************************************)
(* UUIDv7 generation (core/uuid/index.ts).  Date.now() is a pair of 24-bit *)
(* halves, hi * 2^24 + lo; the bytes crypto.getRandomValues wrote are an   *)
(* input of each call.                                                     *)
(***************************************************************************)

Timestamp(hi, lo) == [hi |-> hi, lo |-> lo]

\* the 48 bits of a timestamp that uuidv7Bytes keeps
Embedded(timestamp) == Timestamp(timestamp.hi % 16777216, timestamp.lo)

TimestampLess(a, b) == a.hi < b.hi \/ (a.hi = b.hi /\ a.lo < b.lo)

\* uuidv7Bytes() with the timestamp written from the least significant byte
Uuidv7BytesLittleEndian(timestamp, random) ==
    [i \in 1..16 |->
        CASE i = 1 -> timestamp.lo % 256
          [] i = 2 -> (timestamp.lo \div 256) % 256
          [] i = 3 -> (timestamp.lo \div 65536) % 256
          [] i = 4 -> timestamp.hi % 256
          [] i = 5 -> (timestamp.hi \div 256) % 256
          [] i = 6 -> (timestamp.hi \div 65536) % 256
          [] i = 7 -> (random[7] % 16) + 112
          [] i = 9 -> (random[9] % 64) + 128
          [] OTHER -> random[i]]

\* uuidv7Bytes(), timestamp being Date.now() and random the bytes
\* crypto.getRandomValues wrote: bytes 0..5 are the timestamp from the most
\* significant byte, (byte6 & 0x0f) | 0x70, (byte8 & 0x3f) | 0x80
Uuidv7Bytes(timestamp, random) ==
    [i \in 1..16 |->
        CASE i = 1 -> (timestamp.hi \div 65536) % 256
          [] i = 2 -> (timestamp.hi \div 256) % 256
          [] i = 3 -> timestamp.hi % 256
          [] i = 4 -> (timestamp.lo \div 65536) % 256
          [] i = 5 -> (timestamp.lo \div 256) % 256
          [] i = 6 -> timestamp.lo % 256
          [] i = 7 -> (random[7] % 16) + 112
          [] i = 9 -> (random[9] % 64) + 128
          [] OTHER -> random[i]]

HexDigits == <<"0", "1", "2", "3", "4", "5", "6", "7", "8", "9", "a", "b", "c", "d", "e", "f">>

\* b.toString(16) of a byte
ToString16(b) ==
    IF b < 16 THEN <<HexDigits[b + 1]>>
    ELSE <<HexDigits[(b \div 16) + 1], HexDigits[(b % 16) + 1]>>

\* hex.slice(from, to).join('') over the bytes from..to-1 (0-based)
RECURSIVE HexJoin(_, _, _)
HexJoin(bytes, from, to) ==
    IF from >= to THEN <<>>
    ELSE PadStart(ToString16(bytes[from + 1]), 2, "0") \o HexJoin(bytes, from + 1, to)

\* uuidv7()
Uuidv7(timestamp, random) ==
    LET bytes == Uuidv7Bytes(timestamp, random)
    IN HexJoin(bytes, 0, 4) \o <<"-">> \o HexJoin(bytes, 4, 6) \o <<"-">>
       \o HexJoin(bytes, 6, 8) \o <<"-">> \o HexJoin(bytes, 8, 10) \o <<"-">>
       \o HexJoin(bytes, 10, 16)

\* uuidv7base62()
Uuidv7base62(timestamp, random) == EncodeBase62Lex(Uuidv7Bytes(timestamp, random))

\* uuidv7base48()
Uuidv7base48(timestamp, random) == EncodeBase48Lex(Uuidv7Bytes(timestamp, random))

\* generateRequestId() of core/uuid: the prefix and uuidv7base48()
GenerateRequestIdAt(timestamp, random) == RequestIdPrefix \o Uuidv7base48(timestamp, random)

(***************************************************************************)
(* Two identifiers generated one after the other by the same function.     *)
(* fn holds the function called (rendering), the clock at both calls and   *)
(* the identifiers returned so far.                                        *)
(***************************************************************************)

Renderings == {"uuidv7", "uuidv7base62", "generateRequestId"}

\* readings of Date.now(): 0, 1, around byte and half boundaries, a present
\* date, the last 48-bit value and the first one beyond 48 bits
UuClock ==
    {Timestamp(0, 0), Timestamp(0, 1), Timestamp(0, 255), Timestamp(0, 256),
     Timestamp(0, 16777215), Timestamp(1, 0), Timestamp(106000, 123456),
     Timestamp(106000, 123457), Timestamp(16777215, 16777215), Timestamp(16777216, 0)}

\* what crypto.getRandomValues wrote
UuRandoms ==
    {[i \in 1..16 |-> 0], [i \in 1..16 |-> 255], [i \in 1..16 |-> (i * 37 + 11) % 256]}

UuInit ==
    /\ BufIdle /\ CoreIdle /\ AdIdle /\ fc = <<>> /\ mr = <<>> /\ rd = <<>>
    /\ \E r \in Renderings, t1, t2 \in UuClock :
          fn = [op |-> "generate", rendering |-> r, clock |-> <<t1, t2>>, ids |-> <<>>]

UuCalling(rendering) ==
    fn.op = "generate" /\ fn.rendering = rendering /\ Len(fn.ids) < Len(fn.clock)

\* id = uuidv7()
UuUuidv7 ==
    /\ UuCalling("uuidv7")
    /\ \E random \in UuRandoms :
          fn' = [fn EXCEPT !.ids = Append(@, Uuidv7(fn.clock[Len(fn.ids) + 1], random))]
    /\ FnUnchanged

\* id = uuidv7base62()
UuUuidv7base62 ==
    /\ UuCalling("uuidv7base62")
    /\ \E random \in UuRandoms :
          fn' = [fn EXCEPT !.ids = Append(@, Uuidv7base62(fn.clock[Len(fn.ids) + 1], random))]
    /\ FnUnchanged

\* id = generateRequestId()
UuGenerateRequestId ==
    /\ UuCalling("generateRequestId")
    /\ \E random \in UuRandoms :
          fn' = [fn EXCEPT !.ids = Append(@, GenerateRequestIdAt(fn.clock[Len(fn.ids) + 1], random))]
    /\ FnUnchanged

UuNext == UuUuidv7 \/ UuUuidv7base62 \/ UuGenerateRequestId

SpecUuid == UuInit /\ [][UuNext]_vars

\* both identifiers were generated
UuDone == fn.op = "generate" /\ Len(fn.ids) = 2

\* the length of an identifier in a rendering
UuLength(rendering) ==
    CASE rendering = "uuidv7" -> 36
      [] rendering = "uuidv7base62" -> 22
      [] rendering = "generateRequestId" -> 27

\* C29: of two generated identifiers whose embedded millisecond timestamps
\* satisfy t1 < t2, the one with t1 is the smaller string under plain string
\* comparison in each rendering (hyphenated hex, 22-character base 62, req_
\* followed by 23 base-48 characters), whatever the random bits
C29_IdentifiersSortByTimestamp ==
    UuDone =>
        /\ \A i \in 1..2 : Len(fn.ids[i]) = UuLength(fn.rendering)
        /\ fn.rendering = "generateRequestId" =>
               \A i \in 1..2 : SubSeq(fn.ids[i], 1, Len(RequestIdPrefix)) = RequestIdPrefix
        /\ TimestampLess(Embedded(fn.clock[1]), Embedded(fn.clock[2])) =>
               StringLess(fn.ids[1], fn.ids[2])

\* a request id generated with all random bits set sorts before one generated
\* a millisecond later with all random bits clear
C29_Witness ==
    /\ UuDone /\ fn.rendering = "generateRequestId"
    /\ fn.clock = <<Timestamp(106000, 123456), Timestamp(106000, 123457)>>
    /\ fn.ids[1] = GenerateRequestIdAt(fn.clock[1], [i \in 1..16 |-> 255])
    /\ fn.ids[2] = GenerateRequestIdAt(fn.clock[2], [i \in 1..16 |-> 0])
    /\ StringLess(fn.ids[1], fn.ids[2])

(***************************************************************************)
(* Route patterns (normalizeRoutePattern and its helpers).  A route is a   *)
(* sequence of characters.                                                 *)
(***************************************************************************)

\* [A-Z]
IsUpperLetter(c) == \E i \in 1..Len(UpperLetters) : UpperLetters[i] = c

\* [A-Za-z0-9_-]
IsParamNameChar(c) ==
    \/ IsUpperLetter(c)
    \/ \E i \in 1..Len(LowerLetters) : LowerLetters[i] = c
    \/ c \in {"0", "1", "2", "3", "4", "5", "6", "7", "8", "9", "_", "-"}

\* /^[A-Z]+\s+\//.test(value)
TestMethodPrefix(value) ==
    \E n \in 1..Len(value), m \in 1..Len(value) :
        /\ n + m + 1 <= Len(value)
        /\ \A i \in 1..n : IsUpperLetter(value[i])
        /\ \A i \in (n + 1)..(n + m) : IsWhitespace(value[i])
        /\ value[n + m + 1] = "/"

\* value.search(/\s+/)
SearchWhitespace(value) ==
    IF \E i \in 1..Len(value) : IsWhitespace(value[i])
    THEN IndexOfAny(value, {" "})
    ELSE -1

\* stripMethodPrefix(value) that strips nothing
StripMethodPrefixNever(value) == value

\* stripMethodPrefix(value)
StripMethodPrefix(value) ==
    IF ~TestMethodPrefix(value) THEN value
    ELSE IF SearchWhitespace(value) < 0 THEN value
    ELSE Trim(SliceFrom(value, SearchWhitespace(value)))

\* stripQueryAndFragment(value)
StripQueryAndFragment(value) ==
    LET hashIndex == IndexOf(value, "#")
        beforeHash == IF hashIndex >= 0 THEN Slice(value, 0, hashIndex) ELSE value
        queryIndex == IndexOf(beforeHash, "?")
    IN IF queryIndex >= 0 THEN Slice(beforeHash, 0, queryIndex) ELSE beforeHash

\* value.match(/^[A-Za-z0-9_-]+/)?.[0], the empty string standing for no match
MatchParamName(value) ==
    SubSeq(value, 1,
           IndexOfAny(value, {value[i] : i \in {j \in 1..Len(value) :
                                                    ~IsParamNameChar(value[j])}}))

\* extractParamName(value): null is Undefined
ExtractParamName(value) ==
    IF value = EmptyString THEN Undefined
    ELSE IF MatchParamName(value) = EmptyString THEN Undefined
    ELSE Some(MatchParamName(value))

\* trimmed.replace(/[?*+]+$/, '')
RECURSIVE StripTrailingModifiers(_)
StripTrailingModifiers(value) ==
    IF value # EmptyString /\ value[Len(value)] \in {"?", "*", "+"}
    THEN StripTrailingModifiers(SubSeq(value, 1, Len(value) - 1))
    ELSE value

\* stripParamDecorators(value)
StripParamDecorators(value) ==
    LET trimmed == Trim(value)
    IN IF trimmed = EmptyString THEN trimmed
       ELSE IF EndsWith(trimmed, <<".", ".", ".">>)
            THEN StripTrailingModifiers(SubSeq(trimmed, 1, Len(trimmed) - 3))
       ELSE StripTrailingModifiers(trimmed)

\* value.slice(1, -1)
SliceInner(value) == SubSeq(value, 2, Len(value) - 1)

\* normalizeNextParam(segment)
NormalizeNextParam(segment) ==
    LET inner == SliceInner(segment)
        unwrapped == IF StartsWith(inner, <<"[">>) /\ EndsWith(inner, <<"]">>)
                     THEN SliceInner(inner) ELSE inner
        rest == IF StartsWith(unwrapped, <<".", ".", ".">>) THEN SliceFrom(unwrapped, 3)
                ELSE unwrapped
    IN ExtractParamName(rest)

\* extractRouteParam(segment)
ExtractRouteParam(segment) ==
    IF segment = EmptyString THEN Undefined
    ELSE IF StartsWith(segment, <<"[">>) /\ EndsWith(segment, <<"]">>)
         THEN NormalizeNextParam(segment)
    ELSE IF StartsWith(segment, <<"{">>) /\ EndsWith(segment, <<"}">>)
         THEN ExtractParamName(StripParamDecorators(SliceInner(segment)))
    ELSE IF StartsWith(segment, <<":">>) \/ StartsWith(segment, <<"$">>)
         THEN ExtractParamName(SliceFrom(segment, 1))
    ELSE Undefined

Wildcard == <<"{", "w", "i", "l", "d", "c", "a", "r", "d", "}">>

\* normalizeRouteSegment(segment)
NormalizeRouteSegment(segment) ==
    IF segment = <<"*">> THEN Wildcard
    ELSE IF IsDefined(ExtractRouteParam(segment))
         THEN <<"{">> \o Get(ExtractRouteParam(segment)) \o <<"}">>
    ELSE segment

\* Boolean(segment) of a string
Truthy(segment) == segment # EmptyString

\* normalizeRoutePattern(route)
NormalizeRoutePattern(route) ==
    IF route = EmptyString THEN <<"/">>
    ELSE LET cleaned == Trim(StripQueryAndFragment(route))
             withoutMethod == StripMethodPrefix(cleaned)
             leading == IF StartsWith(withoutMethod, <<"/">>) THEN withoutMethod
                        ELSE <<"/">> \o withoutMethod
             segments == SelectSeq(Split(leading, "/"), Truthy)
         IN IF cleaned = EmptyString THEN <<"/">>
            ELSE IF segments = <<>> THEN <<"/">>
            ELSE <<"/">> \o Join([i \in 1..Len(segments) |-> NormalizeRouteSegment(segments[i])],
                                 <<"/">>)

(***************************************************************************)
(* Calls of normalizeRoutePattern.  The route of a call is written from a  *)
(* method token (or none), a path of segments with or without its leading  *)
(* slash, and what follows the path; fn keeps the pieces next to the route *)
(* and the path returned.                                                  *)
(***************************************************************************)

\* segments of route patterns: literal ones, the parameter syntaxes of the
\* frameworks, and parameter markers without a name
RtSegments ==
    {<<"u", "s", "e", "r", "s">>, <<"1", "2", "3">>, <<"*">>,
     <<"[", "i", "d", "]">>, <<"[", ".", ".", ".", "p", "a", "t", "h", "]">>, <<"[", "[", ".", ".", ".", "s", "l", "u", "g", "]", "]">>,
     <<"{", "i", "d", "}">>, <<"{", "t", "h", "i", "n", "g", "I", "d", ".", ".", ".", "}">>, <<"{", "i", "d", "*", "}">>,
     <<":", "i", "d">>, <<":", "i", "d", "(", "\\", "d", "+", ")">>, <<"$", "i", "d">>,
     <<"a", "*">>, <<":", "u", "s", "e", "r", "_", "i", "d", "-", "2", ".", "j", "s", "o", "n">>, <<"$">>,
     <<":">>, <<"[", "]">>, <<"{", "*", "p", "a", "t", "h", "}">>,
     <<"[", ".", ".", ".", "]">>}

\* what precedes the path: nothing, a method token, blanks
RtHeads ==
    {<<>>, <<"G", "E", "T", " ">>, <<"P", "O", "S", "T", " ", " ">>, <<" ", "D", "E", "L", "E", "T", "E", " ">>, <<" ">>}

\* what follows the path: nothing, a query, a fragment, a trailing slash, a
\* blank
RtTails ==
    {<<>>, <<"?", "x", "=", "1">>, <<"#", "f", "r", "a", "g">>, <<"?", "x", "=", "1", "#", "f">>,
     <<"#", "f", "?", "x">>, <<"/">>, <<" ">>, <<"/", "?", "a", "=", "/", "b">>}

RtPaths == {<<>>} \cup {<<a>> : a \in RtSegments} \cup {<<a, b>> : a, b \in RtSegments}

\* the route written from its pieces; a method token is followed by a slash
RtRoute(head, slash, segments, tail) ==
    head \o (IF slash THEN <<"/">> ELSE <<>>) \o Join(segments, <<"/">>) \o tail

RtInit ==
    /\ BufIdle /\ CoreIdle /\ AdIdle /\ fc = <<>> /\ mr = <<>> /\ rd = <<>>
    /\ \E head \in RtHeads, slash \in BOOLEAN, segments \in RtPaths, tail \in RtTails :
          /\ slash \/ \A i \in 1..Len(head) : head[i] = " "
          /\ fn = [op |-> "normalizeRoutePattern", pc |-> "input", head |-> head,
                   slash |-> slash, segments |-> segments, tail |-> tail,
                   route |-> RtRoute(head, slash, segments, tail), out |-> <<>>]

\* out = normalizeRoutePattern(route)
RtNormalizeRoutePattern ==
    /\ fn.op = "normalizeRoutePattern" /\ fn.pc = "input"
    /\ fn' = [fn EXCEPT !.pc = "done", !.out = NormalizeRoutePattern(fn.route)]
    /\ FnUnchanged

RtNext == RtNormalizeRoutePattern

SpecRoute == RtInit /\ [][RtNext]_vars

RtDone == fn.op = "normalizeRoutePattern" /\ fn.pc = "done"

\* a segment in one of the parameter syntaxes: [..], {..}, :.. or $..
RtIsParameter(segment) ==
    \/ StartsWith(segment, <<"[">>) /\ EndsWith(segment, <<"]">>)
    \/ StartsWith(segment, <<"{">>) /\ EndsWith(segment, <<"}">>)
    \/ StartsWith(segment, <<":">>)
    \/ StartsWith(segment, <<"$">>)

\* what a parameter segment holds after its marker: the text inside the
\* brackets (single or double, a leading ... dropped) or braces, or after the
\* colon or dollar
RtParameterBody(segment) ==
    IF StartsWith(segment, <<"[", "[">>) /\ EndsWith(segment, <<"]", "]">>)
    THEN IF StartsWith(segment, <<"[", "[", ".", ".", ".">>)
         THEN SubSeq(segment, 6, Len(segment) - 2) ELSE SubSeq(segment, 3, Len(segment) - 2)
    ELSE IF StartsWith(segment, <<"[">>) /\ EndsWith(segment, <<"]">>)
    THEN IF StartsWith(segment, <<"[", ".", ".", ".">>)
         THEN SubSeq(segment, 5, Len(segment) - 1) ELSE SubSeq(segment, 2, Len(segment) - 1)
    ELSE IF StartsWith(segment, <<"{">>) /\ EndsWith(segment, <<"}">>)
    THEN SubSeq(segment, 2, Len(segment) - 1)
    ELSE SubSeq(segment, 2, Len(segment))

\* the longest leading run of letters, digits, _ or - of text
RtNameRun(text) ==
    SubSeq(text, 1, CHOOSE n \in 0..Len(text) :
                        /\ \A i \in 1..n : IsParamNameChar(text[i])
                        /\ n < Len(text) => ~IsParamNameChar(text[n + 1]))

\* the canonical form of one segment of the route
RtCanonical(segment) ==
    IF segment = <<"*">> THEN Wildcard
    ELSE IF RtIsParameter(segment)
         THEN <<"{">> \o RtNameRun(RtParameterBody(segment)) \o <<"}">>
    ELSE segment

\* the canonical path of the route of the call
RtCanonicalPath ==
    IF fn.segments = <<>> THEN <<"/">>
    ELSE <<"/">> \o Join([i \in 1..Len(fn.segments) |-> RtCanonical(fn.segments[i])], <<"/">>)

\* C30: normalizeRoutePattern returns a path that begins with /, holds no
\* query or fragment and no leading method token, in which every bracket,
\* brace, colon or dollar parameter segment is rewritten to {name} (name being
\* the longest leading run of letters, digits, _ or -) and a bare * segment to
\* {wildcard}; empty, blank or root input yields /
C30_RouteIsCanonical ==
    RtDone =>
        /\ StartsWith(fn.out, <<"/">>)
        /\ \A i \in 1..Len(fn.out) : fn.out[i] \notin {"?", "#"}
        /\ ~TestMethodPrefix(SliceFrom(fn.out, 1))
        /\ fn.segments = <<>> => fn.out = <<"/">>
        /\ fn.out = RtCanonicalPath

(***************************************************************************)
(* Request timing.  startRequest and endRequest take the times the caller  *)
(* gives when they are finite and read the clock otherwise; fn keeps what  *)
(* was given, what the clock showed and the times the calls settled on.    *)
(***************************************************************************)

\* Number.isFinite(given) ? given : Date.now(), now being what Date.now() returns
ResolveTimeMs(given, now) == IF NumberIsFinite(given) THEN given.n ELSE now

\* the times a caller may give: finite ones, NaN and the infinities
TmStartTimes == {Finite(1000), Finite(2000), NaN, PositiveInfinity}
TmEndTimes == {Finite(1123), Finite(1000), Finite(999), Finite(0), NaN, NegativeInfinity}

\* readings of Date.now(); the clock may be set back between the calls
TmClock == {900, 1500}

TmInit ==
    /\ BufIdle /\ AdIdle /\ fc = <<>> /\ mr = <<>> /\ rd = <<>>
    /\ ctxRequestId = [c \in AllCtxs |-> EmptyString]
    /\ contextMap = [c \in AllCtxs |-> Undefined]
    /\ spans = [c \in AllCtxs |-> Undefined]
    /\ returned = [c \in AllCtxs |-> <<>>]
    /\ genCount = 0 /\ loggerOut = <<>> /\ logLevel = "warn" /\ lastOp = NoOp /\ opCount = 0
    /\ fn = [op |-> "timing", startGiven |-> NaN, startNow |-> 0, startTimeMs |-> 0,
             endGiven |-> NaN, endNow |-> 0, endTimeMs |-> 0]

\* ctx = startRequest(req): req.startTimeMs is settled first
TmStartRequest ==
    /\ fn.op = "timing"
    /\ \E c \in Ctxs, given \in TmStartTimes, now \in TmClock,
          requestId \in {Undefined, Some(<<"A">>)} :
          /\ StartRequest(c, [Request(requestId) EXCEPT
                                 !.startTimeMs = ResolveTimeMs(given, now)])
          /\ fn' = [fn EXCEPT !.startGiven = given, !.startNow = now,
                              !.startTimeMs = ResolveTimeMs(given, now)]
    /\ UNCHANGED <<lbVars, ad, fc, mr, rd>>

\* log = endRequest(ctx, res): res.endTimeMs is settled first
TmEndRequest ==
    /\ fn.op = "timing"
    /\ \E c \in Ctxs, given \in TmEndTimes, now \in TmClock :
          /\ returned[c] = <<>>
          /\ EndRequest(c, Response(Undefined, ResolveTimeMs(given, now)), Undefined, 0)
          /\ fn' = [fn EXCEPT !.endGiven = given, !.endNow = now,
                              !.endTimeMs = ResolveTimeMs(given, now)]
    /\ UNCHANGED <<lbVars, ad, fc, mr, rd>>

TmNext == TmStartRequest \/ TmEndRequest

SpecTiming == TmInit /\ [][TmNext]_vars

\* the request of context c was finished
TmFinished(c) == fn.op = "timing" /\ returned[c] # <<>>

\* C31: for every finished request durationMs is max(0, end time - start
\* time): start 1000 and end 1123 give 123, an end time before the start time
\* gives 0, and durationMs is never negative
C31_DurationIsClampedDifference ==
    \A c \in Ctxs :
        TmFinished(c) =>
            /\ returned[c][1].durationMs >= 0
            /\ fn.endTimeMs >= fn.startTimeMs =>
                   returned[c][1].durationMs = fn.endTimeMs - fn.startTimeMs
            /\ fn.endTimeMs < fn.startTimeMs => returned[c][1].durationMs = 0
            /\ (fn.startGiven = Finite(1000) /\ fn.endGiven = Finite(1123)) =>
                   returned[c][1].durationMs = 123

\* a request that started at 2000 was finished with an end time of 999 and
\* its log has durationMs 0
C31_Witness ==
    /\ TmFinished(1)
    /\ fn.startGiven = Finite(2000) /\ fn.endGiven = Finite(999)
    /\ returned[1][1].durationMs = 0

(***************************************************************************)
(* Actor identity.  The context object startRequest builds (emitter.ts,    *)
(* const context) has the members listed here; XrayContext of types.ts     *)
(* declares setActor as well.  fn keeps whether the span's setAttribute    *)
(* was replaced by a function that throws, and the calls made.             *)
(***************************************************************************)

\* the members of the context object of startRequest
ContextMembers ==
    {"requestId", "traceId", "spanId", "setUserId", "setSessionId", "setAttribute",
     "addEvent", "setError"}

\* a field of a log, undefined when the log has no such field
LogField(log, name) == IF name \in DOMAIN log THEN log[name] ELSE Undefined

\* the value of a span attribute, undefined when it was never set
SpanAttribute(span, key) ==
    IF \E p \in span.attributes : p[1] = key
    THEN Some((CHOOSE p \in span.attributes : p[1] = key)[2])
    ELSE Undefined

\* ctx.setActor(tenantId, userId) on the context of startRequest: the object
\* has no member setActor, so the call throws a TypeError and nothing is
\* recorded
SetActor(c, tenantId, userId) ==
    /\ c \in Ctxs
    /\ Started(c)
    /\ "setActor" \notin ContextMembers
    /\ lastOp' = [Op("setActor", c) EXCEPT !.outcome = "threw"]
    /\ opCount' = opCount + 1
    /\ UNCHANGED <<ctxRequestId, contextMap, spans, returned, genCount, loggerOut, logLevel>>

\* ctx.setUserId(id) when span.setAttribute may throw: the catch block is
\* empty, the state keeps the id and nothing is logged
SetUserIdOnSpan(c, id, spanThrows) ==
    LET change(st) == [st EXCEPT !.userId = Some(id)]
    IN ContextOperation(c, "setUserId", change,
                        IF id # "" /\ ~spanThrows THEN <<AttrOp("user.id", id)>> ELSE <<>>)

TenantIds == {"tenant-123", "tenant-456"}
UserIds == {"", "user-123"}

AcInit ==
    /\ BufIdle /\ AdIdle /\ fc = <<>> /\ mr = <<>> /\ rd = <<>>
    /\ CoreIdle /\ opCount = 0
    /\ \E spanThrows \in BOOLEAN :
          fn = [op |-> "actor", spanThrows |-> spanThrows, actor |-> Undefined,
                userIds |-> <<>>]

AcStartRequest ==
    /\ fn.op = "actor"
    /\ \E c \in Ctxs, requestId \in {Undefined, Some(<<"A">>)} :
          StartRequest(c, Request(requestId))
    /\ UNCHANGED <<lbVars, ad, extVars>>

\* ctx.setActor(tenantId, userId)
AcSetActor ==
    /\ fn.op = "actor"
    /\ \E c \in Ctxs, tenantId \in TenantIds, userId \in UserIds :
          /\ CallsOn(c) < MaxOps /\ returned[c] = <<>>
          /\ SetActor(c, tenantId, userId)
          /\ fn' = [fn EXCEPT !.actor = Some([tenantId |-> tenantId, userId |-> userId])]
    /\ UNCHANGED <<lbVars, ad, fc, mr, rd>>

\* ctx.setUserId(id)
AcSetUserId ==
    /\ fn.op = "actor"
    /\ \E c \in Ctxs, id \in UserIds \cup {"user-legacy"} :
          /\ CallsOn(c) < MaxOps /\ returned[c] = <<>>
          /\ SetUserIdOnSpan(c, id, fn.spanThrows)
          /\ fn' = [fn EXCEPT !.userIds = Append(@, id)]
    /\ UNCHANGED <<lbVars, ad, fc, mr, rd>>

\* log = endRequest(ctx, res); a span whose setAttribute throws fails at the
\* first call of the try block
AcEndRequest ==
    /\ fn.op = "actor"
    /\ \E c \in Ctxs :
          /\ returned[c] = <<>>
          /\ EndRequest(c, Response(Undefined, EndTimeMs), Undefined,
                        IF fn.spanThrows THEN 1 ELSE 0)
    /\ UNCHANGED <<lbVars, ad, extVars>>

AcNext == AcStartRequest \/ AcSetActor \/ AcSetUserId \/ AcEndRequest

SpecActor == AcInit /\ [][AcNext]_vars

\* C32: setActor(tenantId, userId) always records the tenant id and records
\* the user id only when it is non-empty: the emitted log has tenantId set and
\* userId set or absent accordingly, the span carries stainlessxray.tenant.id
\* and, only for a non-empty user id, user.id; setUserId keeps recording
\* userId on its own
C32_ActorIsRecorded ==
    \A c \in Ctxs :
        (fn.op = "actor" /\ returned[c] # <<>> /\ ~fn.spanThrows) =>
            /\ (IsDefined(fn.actor) /\ fn.userIds = <<>>) =>
                  /\ LogField(returned[c][1], "tenantId") = Some(Get(fn.actor).tenantId)
                  /\ LogField(returned[c][1], "userId") =
                        (IF Get(fn.actor).userId # "" THEN Some(Get(fn.actor).userId)
                         ELSE Undefined)
                  /\ SpanAttribute(Get(spans[c]), "stainlessxray.tenant.id") =
                        Some(Get(fn.actor).tenantId)
                  /\ SpanAttribute(Get(spans[c]), "user.id") =
                        (IF Get(fn.actor).userId # "" THEN Some(Get(fn.actor).userId)
                         ELSE Undefined)
            /\ (~IsDefined(fn.actor) /\ fn.userIds # <<>>
                /\ fn.userIds[Len(fn.userIds)] # "") =>
                  LogField(returned[c][1], "userId") = Some(fn.userIds[Len(fn.userIds)])

\* C33: when the span's setAttribute throws during setUserId or setActor, the
\* call does not throw to the caller and exactly one diagnostic is logged
\* through the logger's error method, with message xray: setUserId failed or
\* xray: setActor failed
C33_SpanFailureIsLoggedOnce ==
    [][(/\ fn.op = "actor" /\ fn.spanThrows
        /\ \/ lastOp'.name = "setActor"
           \/ lastOp'.name = "setUserId" /\ fn'.userIds[Len(fn'.userIds)] # "") =>
        /\ lastOp'.outcome = "returned"
        /\ Len(loggerOut') = Len(loggerOut) + 1
        /\ loggerOut'[Len(loggerOut')] =
              [level |-> "error",
               message |-> IF lastOp'.name = "setActor" THEN "xray: setActor failed"
                           ELSE "xray: setUserId failed"]
    ]_vars

\* ---- onError and the log of a failed handler (wrapHttpHandler)

\* C34: for a request handled by wrapHttpHandler whose handler throws or
\* returns a promise that rejects, onError is invoked exactly once, in every
\* ordering of the failure relative to the response's finish and close events;
\* onError is never invoked for a handler that has not failed
C34_OnErrorExactlyOnce ==
    (ad.kind = "node" /\ ad.opts.onError # "absent") =>
        ad.calls.onError = (IF ad.capturedError THEN 1 ELSE 0)

\* the promise of the handler rejected after the response had emitted finish
\* and close, and onError was invoked once
C34_Witness ==
    /\ ad.kind = "node" /\ ad.opts.onError = "returns"
    /\ ad.capturedError /\ ad.finishEmitted /\ ad.closeEmitted
    /\ ad.endCalls = 1 /\ ~IsDefined(returned[RequestCtx][1].error)
    /\ ad.calls.onError = 1

\* C36: in the Node adapter, whenever the handler fails, the log passed to
\* onResponse has its error field set to that failure and onError is invoked
\* before onResponse, in every ordering of the rejection relative to the
\* response's finish and close events
C36_FailureReachesOnResponse ==
    [][(ad'.kind = "node" /\ ad'.capturedError) =>
        /\ ad'.calls.onResponse > 0 =>
              IsDefined(returned'[RequestCtx][Len(returned'[RequestCtx])].error)
        /\ ad'.calls.onError > ad.calls.onError => ad.calls.onResponse = 0
    ]_vars

(***************************************************************************)
(* Body redaction and header capture.                                      *)
(***************************************************************************)
PathToken == <<"$", ".", "token">>

\* the request of context c was sent as utf8 JSON under a JSON content type, has a
\* token, and the redaction policy of the request names the path of the token and
\* leaves the content type alone
MrSendsJsonSecret(c) ==
    /\ IsDefined(mr.req[c]) /\ IsDefined(Get(mr.req[c]).body)
    /\ Get(Get(mr.req[c]).body).encoding = "utf8"
    /\ JsonParses(Get(Get(mr.req[c]).body).value)
    /\ HasOwnMember(JsonParse(Get(Get(mr.req[c]).body).value), KeyToken)
    /\ IsJsonContentType(Get(mr.req[c]).headers)
    /\ HeaderContentType \notin MergeRedaction(mr.config.redaction,
                                               Get(mr.st[c]).redactionOverride).headers
    /\ \E i \in 1..Len(MergeRedaction(mr.config.redaction,
                                       Get(mr.st[c]).redactionOverride).bodyJsonPaths) :
          MergeRedaction(mr.config.redaction,
                         Get(mr.st[c]).redactionOverride).bodyJsonPaths[i] = PathToken

\* C35: a utf8 JSON request body sent with a content type of application/json has
\* the value at a configured JSON path replaced in the emitted log, also when the
\* capture policy of the request leaves the request headers out of the log
C35_BodyRedactionIgnoresHeaderCapture ==
    \A c \in MrCtxs :
        (/\ IsDefined(mr.log[c]) /\ IsDefined(Get(mr.log[c]).requestBody)
         /\ MrSendsJsonSecret(c))
        => /\ JsonParses(Get(Get(mr.log[c]).requestBody).value)
           /\ GetProperty(JsonParse(Get(Get(mr.log[c]).requestBody).value), KeyToken)
                 = JStr(MergeRedaction(mr.config.redaction,
                                       Get(mr.st[c]).redactionOverride).replacement)

\* C37: once endRequest has returned for a context startRequest made, the span of
\* the context has been ended exactly once, also when a span call of the
\* finalization threw, and a later endRequest on the context does not end it again.
C37_SpanEndedExactlyOnce ==
    \A c \in Ctxs :
        (Started(c) /\ returned[c] # <<>>) => Get(spans[c]).endCalls = 1

(***************************************************************************)
(* SpecIdentifier: requests whose identifier comes from the request, the   *)
(* context, the response header or the generator, under redaction policies *)
(* that do or do not name the identifier header.                           *)
(***************************************************************************)
IdValueA == <<"i", "d", "7">>
IdValueB == <<"i", "d", "8">>

\* the emitter-wide configurations: the default redaction, and one that also
\* redacts the identifier header
IdConfigs ==
    {EmitterConfig,
     [EmitterConfig EXCEPT !.redaction.headers = @ \cup {ConfigRequestIdHeader}]}

IdRequests == {MrRequestB, [MrRequestB EXCEPT !.requestId = Some(<<" ", "i", "d", "1">>)]}

\* the responses: without the identifier header, with it, with it under a
\* capitalized name and padded, and with a list of values
IdResponses ==
    {MrResponseA,
     MrResponseB,
     [MrResponseB EXCEPT !.headers =
         Some(<<HeaderEntry(<<"R", "e", "q", "u", "e", "s", "t", "-", "I", "d">>, FALSE,
                            <<<<" ">> \o IdValueB \o <<" ">>>>)>>)],
     [MrResponseB EXCEPT !.headers =
         Some(<<HeaderEntry(HeaderSetCookie, FALSE, <<<<"s", "=", "1">>>>),
                HeaderEntry(ConfigRequestIdHeader, TRUE, <<IdValueB, IdValueA>>)>>)]}

IdRedactionOverrides ==
    {Some(RedactionOverride(Some({<<"R", "E", "Q", "U", "E", "S", "T", "-", "I", "D">>}),
                            Undefined, Undefined, Undefined)),
     Some(RedactionOverride(Some({HeaderCookie}), Undefined, Undefined, Some(<<"***">>)))}

IdInit ==
    /\ BufIdle /\ CoreIdle /\ AdIdle
    /\ fc = <<>> /\ rd = <<>> /\ fn = <<>>
    /\ \E config \in IdConfigs : mr = [MrFresh EXCEPT !.config = config]

\* startRequest(req) returns context c
IdStartRequest(c) ==
    /\ ~IsDefined(mr.req[c])
    /\ \E req \in IdRequests :
          mr' = [mr EXCEPT !.st[c] = Some(BoundState(req)), !.req[c] = Some(req)]
    /\ MrUnchanged

\* setContextRequestId(ctx, id)
IdSetContextRequestId(c) ==
    MrCall(c, [ContextCall("setContextRequestId", "", "") EXCEPT !.id = <<"i", "d", "9">>])

\* setRedactionOverride(ctx, redaction)
IdSetRedactionOverride(c) ==
    \E o \in IdRedactionOverrides :
        MrCall(c, [ContextCall("setRedactionOverride", "", "") EXCEPT !.redaction = o])

\* endRequest(ctx, res) on context c
IdEndRequest(c) ==
    /\ MrActive(c)
    /\ IsDefined(StateOf(mr, c))
    /\ \E res \in IdResponses :
       \E r \in {FinishRequest(mr.config, Get(StateOf(mr, c)), res, Undefined,
                               GenerateRequestId(mr.generated + 1))} :
          mr' = [mr EXCEPT !.config = r.config, !.st[c] = Some(r.state),
                           !.fin[c] = Some([res |-> res, err |-> Undefined,
                                            generated |-> GenerateRequestId(mr.generated + 1),
                                            other |-> MrStatus(3 - c)]),
                           !.log[c] = r.log,
                           !.generated = IF r.generated THEN @ + 1 ELSE @]
    /\ MrUnchanged

IdNext ==
    \E c \in MrCtxs :
        \/ IdStartRequest(c)
        \/ IdSetContextRequestId(c)
        \/ IdSetRedactionOverride(c)
        \/ IdEndRequest(c)

SpecIdentifier == IdInit /\ [][IdNext]_vars

\* no identifier was given to the request of context c, at start or on the context
IdNoExplicitIdentifier(c) ==
    /\ ~IsDefined(Get(mr.req[c]).requestId)
    /\ \A i \in 1..Len(mr.calls[c]) : mr.calls[c][i].kind # "setContextRequestId"

\* the entries of the identifier header among headers
IdHeaderEntries(headers) ==
    SelectSeq(headers, LAMBDA h : ToLowerCase(h.name) = ConfigRequestIdHeader)

\* the identifier header is in the redaction list the request was finished under
IdHeaderIsRedacted(c) ==
    ConfigRequestIdHeader \in MergeRedaction(mr.config.redaction,
                                             Get(mr.st[c]).redactionOverride).headers

\* C38: when the identifier header is in the redaction list and no explicit
\* identifier was set, the requestId of the log is the value the response carried
\* in the header (its first value, trimmed), while every value of the header in the
\* log's responseHeaders is the replacement token.
C38_IdentifierFromRawHeaders ==
    \A c \in MrCtxs :
        (/\ IsDefined(mr.log[c]) /\ IsDefined(mr.fin[c])
         /\ IdNoExplicitIdentifier(c)
         /\ IdHeaderIsRedacted(c)
         /\ IsDefined(Get(mr.fin[c]).res.headers)
         /\ IdHeaderEntries(Get(Get(mr.fin[c]).res.headers)) # <<>>)
        => LET sent == IdHeaderEntries(Get(Get(mr.fin[c]).res.headers))[1]
               logged == IdHeaderEntries(Get(Get(mr.log[c]).responseHeaders))
               replacement == MergeRedaction(mr.config.redaction,
                                             Get(mr.st[c]).redactionOverride).replacement
           IN /\ Get(mr.log[c]).requestId = Trim(sent.values[1])
              /\ Get(mr.log[c]).requestId # replacement
              /\ Len(logged) = 1
              /\ \A k \in 1..Len(logged[1].values) : logged[1].values[k] = replacement

\* a request without an explicit identifier was answered with a padded identifier
\* under a capitalized header name that a per-request override redacts
C38_Witness ==
    \E c \in MrCtxs :
        /\ IsDefined(mr.log[c]) /\ IsDefined(mr.fin[c])
        /\ IdNoExplicitIdentifier(c)
        /\ mr.config = EmitterConfig
        /\ IdHeaderIsRedacted(c)
        /\ Get(mr.log[c]).requestId = IdValueB
        /\ IsDefined(Get(mr.log[c]).responseHeaders)
        /\ Len(Get(Get(mr.log[c]).responseHeaders)) = 1
        /\ Get(Get(mr.log[c]).responseHeaders)[1].values = <<Replacement>>
        /\ Get(Get(mr.fin[c]).res.headers)[1].values # <<Replacement>>

(***************************************************************************)
(* SpecIdempotence: applyRedaction applied to a log, and applied again to  *)
(* the log it returned, under the same policy.  The policies carry the     *)
(* default replacement token and tokens that read like a cookie pair, a    *)
(* cookie list and an authorization scheme.                                *)
(***************************************************************************)
IpReplacements ==
    {Replacement, <<"x", "=", "y">>, <<"x", ";", "y">>, <<"B", "a", "s", "i", "c">>}

\* the logs of the redaction inputs: headers, urls, JSON documents and bodies
IpHeaderLogs ==
    {[log |-> RedactableLog(Some(i.input), Undefined, Undefined, Undefined), config |-> i.config] :
        i \in AuthHeaderInputs \cup CookieHeaderInputs}
IpUrlLogs ==
    {[log |-> [RedactableLog(Undefined, Undefined, Undefined, Undefined) EXCEPT !.url = i.input],
      config |-> i.config] : i \in UrlInputs}
IpPathLists ==
    {<< <<"nested", ".", "id">>, <<"nested">> >>, << <<"nested">>, <<"nested", ".", "id">> >>,
     << <<"items", "[", "0", "]">>, <<"items", "[", "0", "]", ".", "id">> >>,
     << <<"toString">>, <<"token">> >>}
IpBodyLogs ==
    {[log |-> RedactableLog(Undefined, Undefined, JsonResponseHeaders,
                            Some(CapturedBody(JsonText(doc, compact), "utf8"))),
      config |-> RedactionConfig({}, {}, paths)] :
        doc \in JsonDocs, compact \in BOOLEAN,
        paths \in {<<p>> : p \in JsonPaths} \cup IpPathLists}
    \cup {[log |-> i.input, config |-> i.config] : i \in BodyInputs}

IpInputs ==
    {[op |-> "applyRedaction", pc |-> "input", log |-> i.log,
      config |-> [i.config EXCEPT !.replacement = r], once |-> <<>>, twice |-> <<>>,
      threw |-> FALSE] :
        i \in IpHeaderLogs \cup IpUrlLogs \cup IpBodyLogs, r \in IpReplacements}

IpInit ==
    /\ BufIdle /\ CoreIdle /\ AdIdle
    /\ fc = <<>> /\ mr = <<>> /\ rd = <<>>
    /\ fn \in IpInputs

\* applyRedaction(config, log)
IpApplyRedaction ==
    /\ fn.pc = "input"
    /\ \E r \in {ApplyRedactionWith(fn.config, fn.log)} :
          fn' = [fn EXCEPT !.pc = IF r.threw THEN "threw" ELSE "once",
                           !.once = IF r.threw THEN <<>> ELSE r.log, !.threw = r.threw]
    /\ FnUnchanged

\* applyRedaction(config, redacted) on the log the first call returned
IpApplyRedactionAgain ==
    /\ fn.pc = "once"
    /\ \E r \in {ApplyRedactionWith(fn.config, fn.once)} :
          fn' = [fn EXCEPT !.pc = IF r.threw THEN "threw" ELSE "twice",
                           !.twice = IF r.threw THEN <<>> ELSE r.log, !.threw = r.threw]
    /\ FnUnchanged

IpNext == IpApplyRedaction \/ IpApplyRedactionAgain

SpecIdempotence == IpInit /\ [][IpNext]_vars

\* C39: applying applyRedaction again, with the same policy, to the log it returned
\* returns an equal log: no header value, cookie value, query value or JSON value
\* is redacted a second time into a different string.
C39_RedactionIsIdempotent ==
    /\ fn.pc = "twice" => fn.twice = fn.once
    /\ fn.pc = "threw" => fn.once = <<>>

(***************************************************************************)
(* SpecRouteLifecycle: the route of one request from startRequest to the   *)
(* log of endRequest.  fn holds the route of the request state, where it   *)
(* came from, the route as endRequest found it and the route of the log.   *)
(***************************************************************************)
RlRoutes ==
    {<<"/", "u", "s", "e", "r", "s", "/", ":", "i", "d">>,
     <<"G", "E", "T", " ", "/", "u", "s", "e", "r", "s", "/", "[", "i", "d", "]", "?", "x", "=", "1">>,
     <<"u", "s", "e", "r", "s", "/", "{", "i", "d", "}", "/">>,
     <<"/", "f", "i", "l", "e", "s", "/", "*">>,
     <<"/", "a", " ", "/">>,
     <<"/", "a", "/", " ", "/", "b", " ", "/", "#", "f">>,
     <<"/", "$">>,
     <<" ">>,
     <<"/">>,
     <<"P", "O", "S", "T", " ", "/", "o", "r", "d", "e", "r", "s">>,
     <<"/", "o", "r", "d", "e", "r", "s", "/", "$", "i", "d", "/", "i", "t", "e", "m", "s", "/", "[", ".", ".", ".", "p", "a", "t", "h", "]">>,
     <<"/", "a", "/", "{", "i", "d", "?", "}", " ">>}

RlInit ==
    /\ BufIdle /\ CoreIdle /\ AdIdle /\ fc = <<>> /\ mr = <<>> /\ rd = <<>>
    /\ \E normalize \in BOOLEAN :
          fn = [op |-> "route", pc |-> "idle", normalize |-> normalize, route |-> Undefined,
                origin |-> "none", atFinish |-> Undefined, log |-> Undefined]

\* route && config.route.normalize ? config.route.normalizer(route) : route
NormalizedIfEnabled(normalize, route) ==
    IF IsDefined(route) /\ Get(route) # EmptyString /\ normalize
    THEN Some(NormalizeRoutePattern(Get(route)))
    ELSE route

\* startRequest(req), with or without a route
RlStartRequest ==
    /\ fn.pc = "idle"
    /\ \E route \in {Undefined} \cup {Some(r) : r \in RlRoutes} :
          fn' = [fn EXCEPT !.pc = "active",
                           !.route = NormalizedIfEnabled(fn.normalize, route),
                           !.origin = IF IsDefined(route) THEN "start" ELSE "none"]
    /\ FnUnchanged

\* setContextRoute(ctx, route)
RlSetContextRoute ==
    /\ fn.pc = "active"
    /\ \E r \in RlRoutes :
          fn' = [fn EXCEPT !.route = IF fn.normalize THEN Some(NormalizeRoutePattern(r))
                                     ELSE Some(r),
                           !.origin = "setContextRoute"]
    /\ FnUnchanged

\* endRequest on a request whose route is route
RlFinish(route, origin) ==
    fn' = [fn EXCEPT !.pc = "finished", !.route = route, !.origin = origin,
                     !.atFinish = route,
                     !.log = NormalizedIfEnabled(fn.normalize, route)]

\* endRequest(ctx, res)
RlEndRequest ==
    /\ fn.pc = "active"
    /\ RlFinish(fn.route, fn.origin)
    /\ FnUnchanged

\* finish() of the node adapter: a request without a route gets the route of the
\* framework, then endRequest
RlAdapterFinish ==
    /\ fn.pc = "active"
    /\ \E r \in RlRoutes :
          IF ~IsDefined(fn.route) \/ Get(fn.route) = EmptyString
          THEN RlFinish(Some(r), "adapter")
          ELSE RlFinish(fn.route, fn.origin)
    /\ FnUnchanged

RlNext == RlStartRequest \/ RlSetContextRoute \/ RlEndRequest \/ RlAdapterFinish

SpecRouteLifecycle == RlInit /\ [][RlNext]_vars

\* C40: with route normalization enabled, the route of the emitted log is in
\* normalized form (the normalizer maps it to itself), wherever the route came
\* from, and endRequest leaves a route that startRequest or setContextRoute had
\* normalized as it found it.
C40_EmittedRouteIsNormalized ==
    (/\ fn.pc = "finished" /\ fn.normalize
     /\ IsDefined(fn.log) /\ Get(fn.log) # EmptyString)
    => /\ NormalizeRoutePattern(Get(fn.log)) = Get(fn.log)
       /\ fn.origin \in {"start", "setContextRoute"} => fn.log = fn.atFinish

====
